---- MODULE Spec2Model ----
(***************************************************************************)
(* The posting engine of the double-entry accounting system                *)
(* (src/accountingModel.js) over its PostgreSQL store                      *)
(* (src/backend/database/init-pg.js, src/backend/database/db.js).          *)
(*                                                                         *)
(* Money.  Every amount and balance is an integer counting units of 0.005, *)
(* so 2 is 0.01 and 400 is 2.00.  A request may carry any positive amount  *)
(* (the validator only asks for amount > 0); the store keeps amounts and   *)
(* balances in DECIMAL(15,2) columns, so every stored value is a multiple  *)
(* of 0.01, i.e. even.  ToDecimal2 is the rounding the store applies when  *)
(* a value is assigned to such a column.                                   *)
(*                                                                         *)
(* Dates are day numbers 1..MaxDate; 0 stands for a missing date.          *)
(***************************************************************************)
EXTENDS Integers, Sequences, FiniteSets, TLC

\* ------------------------------------------------------------------ bounds
MaxTxnId == 2        \* values the transactions.id sequence may hand out
MaxEntries == 2      \* journal entries in one request
MaxDate == 1         \* transaction dates are 1..MaxDate
MaxDecimal == 1      \* largest magnitude a DECIMAL column holds, in units of 0.01
MaxBookDate == 2     \* transaction dates of the books are 1..MaxBookDate

\* ------------------------------------------------------- program constants
Tolerance == 2       \* 0.01: validateTransaction's "difference > 0.01"

VARIABLES
    accounts,             \* table accounts: id -> row
    transactions,         \* table transactions: a set of rows
    journal_entries,      \* table journal_entries: transaction_id -> its rows, in id order
    transactions_id_seq,  \* last value of the SERIAL transactions.id
    issued,               \* history: (id, number) of every committed createTransaction
    last,                 \* history: the call that ran last and its outcome
    pc,                   \* per session: the statement its createTransaction runs next
    req,                  \* per session: the transactionData of its call
    loc,                  \* per session: the locals of its call
    tx,                   \* per session: the uncommitted writes and row locks of its unit
    ret                   \* per session: what its call returned or threw

sessions == <<pc, req, loc, tx, ret>>

vars == <<accounts, transactions, journal_entries, transactions_id_seq, issued, last,
          pc, req, loc, tx, ret>>

\* ------------------------------------------------------ chart of accounts
\* Two of the default accounts initializeDatabase inserts, one of each normal
\* balance: Cash (Asset, Debit) and Owner's Capital (Capital, Credit).
ChartOfAccounts ==
    (1 :> [account_type |-> "Asset", normal_balance |-> "Debit", balance |-> 0,
           is_active |-> TRUE])
    @@ (2 :> [account_type |-> "Capital", normal_balance |-> "Credit", balance |-> 0,
              is_active |-> TRUE])

\* --------------------------------------------------------------- inputs
EntryTypes == {"Debit", "Credit"}
\* a request's date when it is missing or empty
NoDate == 0
Dates == 1..MaxDate
\* account ids a request may name: those of the chart, and one past it that no
\* account has
AccountIdInputs == DOMAIN ChartOfAccounts
MissingAccountId == Cardinality(DOMAIN ChartOfAccounts) + 1
\* 0.005 and 0.01
AmountInputs == {1, 2}
DateInputs == Dates
DescriptionInputs == {"memo"}

EntryInputs ==
    [account_id : AccountIdInputs, amount : AmountInputs, entry_type : EntryTypes]
    \cup {[account_id |-> MissingAccountId, amount |-> 2, entry_type |-> "Debit"]}

SeqsUpTo(S, n) == UNION {[1..k -> S] : k \in 0..n}

\* transactionData of createTransaction, updateData of a full edit
Drafts == [date : DateInputs, description : DescriptionInputs,
           entries : SeqsUpTo(EntryInputs, MaxEntries)]

\* updateData of a basic edit: no entries array
BasicUpdates == [date : DateInputs, description : DescriptionInputs]

TxnIdInputs == 1..MaxTxnId

\* ------------------------------------------------------------ arithmetic
Abs(x) == IF x < 0 THEN -x ELSE x

\* Assignment to a DECIMAL(15,2) column: round to a multiple of 0.01, ties
\* away from zero.
ToDecimal2(x) == IF x % 2 = 0 THEN x ELSE IF x > 0 THEN x + 1 ELSE x - 1

RECURSIVE SumAmounts(_, _)
SumAmounts(entries, entryType) ==
    IF entries = <<>> THEN 0
    ELSE (IF Head(entries).entry_type = entryType THEN Head(entries).amount ELSE 0)
         + SumAmounts(Tail(entries), entryType)

totalDebits(entries) == SumAmounts(entries, "Debit")
totalCredits(entries) == SumAmounts(entries, "Credit")

\* ------------------------------------------------------------ validator
\* The first error validateTransaction throws, or "ok".  The code adds the
\* amounts as IEEE doubles; on the amounts of AmountInputs, at most MaxEntries of
\* them, the comparison with 0.01 comes out as it does in exact arithmetic
\* (0.005 + 0.005 is the double 0.01, and every other total is 0.005 or more
\* away from the threshold).
validateTransaction(d) ==
    IF d.date = NoDate THEN "Transaction date is required"
    ELSE IF d.description = "" THEN "Transaction description is required"
    ELSE IF Len(d.entries) < 2 THEN "Transaction must have at least two journal entries"
    ELSE IF \E i \in 1..Len(d.entries) : d.entries[i].amount <= 0
        THEN "Amount must be a positive number"
    ELSE IF Abs(totalDebits(d.entries) - totalCredits(d.entries)) > Tolerance
        THEN "Debits do not equal Credits"
    ELSE IF Cardinality({d.entries[i].account_id : i \in 1..Len(d.entries)}) < 2
        THEN "Transaction must involve at least two different accounts"
    ELSE "ok"

\* ------------------------------------------------------- store statements
\* A unit of work in progress: the tables as the unit sees them, and whether a
\* statement has thrown.
Work(accts, txns, jes) ==
    [ok |-> TRUE, error |-> "", accounts |-> accts, transactions |-> txns,
     journal_entries |-> jes]

Throw(w, msg) == [w EXCEPT !.ok = FALSE, !.error = msg]

\* SELECT COALESCE(MAX(transaction_number), 0) + 1 FROM transactions
nextTID(txns) ==
    IF txns = {} THEN 1
    ELSE (CHOOSE n \in {t.transaction_number : t \in txns} :
              \A t \in txns : t.transaction_number <= n) + 1

\* INSERT INTO transactions ...; transaction_number is UNIQUE
InsertTransaction(w, id, number, date, description) ==
    IF ~w.ok THEN w
    ELSE IF \E t \in w.transactions : t.transaction_number = number
        THEN Throw(w, "unique_violation transaction_number")
    ELSE [w EXCEPT !.transactions = @ \cup
            {[id |-> id, transaction_number |-> number,
              transaction_date |-> date, description |-> description]}]

\* INSERT INTO journal_entries ...: both foreign keys, CHECK(amount > 0), and the
\* amount rounded into its DECIMAL(15,2) column
InsertJournalEntry(w, transactionId, entry) ==
    IF ~w.ok THEN w
    ELSE IF ~(\E t \in w.transactions : t.id = transactionId)
        THEN Throw(w, "foreign_key_violation transaction_id")
    ELSE IF entry.account_id \notin DOMAIN w.accounts
        THEN Throw(w, "foreign_key_violation account_id")
    ELSE IF ToDecimal2(entry.amount) <= 0
        THEN Throw(w, "check_violation amount")
    ELSE LET row == [account_id |-> entry.account_id,
                     amount |-> ToDecimal2(entry.amount),
                     entry_type |-> entry.entry_type]
         IN [w EXCEPT !.journal_entries =
                IF transactionId \in DOMAIN @
                THEN [@ EXCEPT ![transactionId] = Append(@, row)]
                ELSE @ @@ (transactionId :> <<row>>)]

\* balanceChange of _updateAccountBalanceInternal
balanceChange(normal_balance, amount, entryType) ==
    IF normal_balance = "Debit"
    THEN (IF entryType = "Debit" THEN amount ELSE -amount)
    ELSE (IF entryType = "Credit" THEN amount ELSE -amount)

\* UPDATE accounts SET balance = balance + $1: the sum is rounded into the
\* DECIMAL(15,2) column
IncrementBalance(balance, change) == ToDecimal2(balance + change)

\* a value too large for its DECIMAL column: the statement fails
Overflows(x) == Abs(x) > 2 * MaxDecimal

\* SELECT normal_balance FROM accounts WHERE id = $1, and the throw on no row
SelectNormalBalance(w, accountId) ==
    IF ~w.ok THEN w
    ELSE IF accountId \notin DOMAIN w.accounts THEN Throw(w, "Account not found")
    ELSE w

\* UPDATE accounts SET balance = balance + $1 WHERE id = $3
UpdateBalance(w, accountId, normal_balance, amount, entryType) ==
    IF ~w.ok \/ accountId \notin DOMAIN w.accounts THEN w
    ELSE LET newBalance ==
                IncrementBalance(w.accounts[accountId].balance,
                                 balanceChange(normal_balance, amount, entryType))
         IN IF Overflows(newBalance) THEN Throw(w, "numeric field overflow")
            ELSE [w EXCEPT !.accounts[accountId].balance = newBalance]

_updateAccountBalanceInternal(w, accountId, amount, entryType) ==
    LET found == SelectNormalBalance(w, accountId)
    IN IF ~found.ok THEN found
       ELSE UpdateBalance(found, accountId, found.accounts[accountId].normal_balance,
                          amount, entryType)

\* the loop of createTransaction and of _updateFullTransaction over the new entries
RECURSIVE PostEntries(_, _, _)
PostEntries(w, transactionId, entries) ==
    IF entries = <<>> \/ ~w.ok THEN w
    ELSE PostEntries(
            _updateAccountBalanceInternal(
                InsertJournalEntry(w, transactionId, Head(entries)),
                Head(entries).account_id, Head(entries).amount, Head(entries).entry_type),
            transactionId, Tail(entries))

\* a reversal that posts each old row the way it was posted
reverseEntryType_Same(entryType) == entryType

reverseEntryType(entryType) == IF entryType = "Debit" THEN "Credit" ELSE "Debit"

\* a unit that goes on when it finds no journal entry for the transaction
RequireEntries_Skip(w, rows, msg) == w

\* if (rows.length === 0) throw: the transaction has no journal entries
RequireEntries(w, rows, msg) == IF w.ok /\ rows = <<>> THEN Throw(w, msg) ELSE w

\* a loop over the old rows that reverses none of them
ReverseEntries_Skip(w, rows) == w

\* the loop of _updateFullTransaction and of deleteTransaction over the old rows
RECURSIVE ReverseEntries(_, _)
ReverseEntries(w, rows) ==
    IF rows = <<>> \/ ~w.ok THEN w
    ELSE ReverseEntries(
            _updateAccountBalanceInternal(w, Head(rows).account_id, Head(rows).amount,
                                          reverseEntryType(Head(rows).entry_type)),
            Tail(rows))

\* SELECT * FROM journal_entries WHERE transaction_id = $1
EntriesOf(jes, transactionId) ==
    IF transactionId \in DOMAIN jes THEN jes[transactionId] ELSE <<>>

\* DELETE FROM journal_entries WHERE transaction_id = $1
DeleteEntries(w, transactionId) ==
    IF ~w.ok THEN w
    ELSE [w EXCEPT !.journal_entries =
            [t \in DOMAIN @ \ {transactionId} |-> @[t]]]

\* a transaction() that commits whatever the callback wrote, thrown or not
transaction_NoRollback(before, after) == after

\* db.js transaction(): COMMIT what the callback wrote, or ROLLBACK when it threw
transaction(before, after) ==
    IF after.ok THEN after ELSE Throw(before, after.error)

\* ------------------------------------------------------------------ calls
\* What is recorded of a call: which handler ran on which transaction, whether it
\* returned or threw, the error, whether the unit of work had written anything
\* when it threw (dirty), and whether the request's entries were those the
\* transaction already had, for a full edit, or those of the transaction the
\* call before it deleted, for a createTransaction, or whether the row already
\* had the request's date and description, for a basic edit (unchanged).  Of a deleteTransaction
\* that returned it also keeps the rows it deleted and the balances it found.
Outcome(op, id, before, after, unchanged) ==
    [op |-> op, id |-> id, status |-> IF after.ok THEN "ok" ELSE "error",
     error |-> after.error,
     dirty |-> ~after.ok /\ <<after.accounts, after.transactions, after.journal_entries>>
                            # <<before.accounts, before.transactions, before.journal_entries>>,
     unchanged |-> unchanged,
     rows |-> IF op = "deleteTransaction" /\ after.ok
              THEN EntriesOf(before.journal_entries, id) ELSE <<>>,
     balances |-> IF op = "deleteTransaction" /\ after.ok
                  THEN [a \in DOMAIN before.accounts |-> before.accounts[a].balance]
                  ELSE <<>>]

Rejected(op, id, msg) ==
    [op |-> op, id |-> id, status |-> "error", error |-> msg, dirty |-> FALSE,
     unchanged |-> FALSE, rows |-> <<>>, balances |-> <<>>]

Commit(w) ==
    /\ accounts' = w.accounts
    /\ transactions' = w.transactions
    /\ journal_entries' = w.journal_entries

\* the request's entries are, as a bag, the (account, amount, type) of the rows
SameEntries(rows, entries) ==
    /\ Len(rows) = Len(entries)
    /\ \A e \in {rows[i] : i \in 1..Len(rows)} \cup {entries[i] : i \in 1..Len(entries)} :
        Cardinality({i \in 1..Len(rows) : rows[i] = e})
        = Cardinality({i \in 1..Len(entries) : entries[i] = e})

createTransaction(transactionData) ==
    LET v == validateTransaction(transactionData) IN
    IF v # "ok"
    THEN /\ last' = Rejected("createTransaction", 0, v)
         /\ UNCHANGED <<accounts, transactions, journal_entries, transactions_id_seq, issued>>
         /\ UNCHANGED sessions
    ELSE /\ transactions_id_seq < MaxTxnId
         /\ LET before == Work(accounts, transactions, journal_entries)
                nextTransactionNumber == nextTID(transactions)
                transactionId == transactions_id_seq + 1
                after == PostEntries(
                            InsertTransaction(before, transactionId, nextTransactionNumber,
                                              transactionData.date, transactionData.description),
                            transactionId, transactionData.entries)
                result == transaction(before, after)
            IN /\ Commit(result)
               /\ transactions_id_seq' = transactionId
               /\ issued' = IF result.ok
                            THEN issued \cup {[id |-> transactionId,
                                               number |-> nextTransactionNumber]}
                            ELSE issued
               /\ last' = Outcome("createTransaction", transactionId, before, after,
                                  /\ last.op = "deleteTransaction"
                                  /\ last.status = "ok"
                                  /\ SameEntries(last.rows, transactionData.entries))
               /\ UNCHANGED sessions

\* an UPDATE transactions that has lost its WHERE id = $5
UpdateTransactionRow_AllRows(w, transactionId, date, description) ==
    IF ~w.ok THEN w
    ELSE [w EXCEPT !.transactions =
            {[t EXCEPT !.transaction_date = date, !.description = description] : t \in @}]

\* UPDATE transactions SET transaction_date, description ... WHERE id = $5
UpdateTransactionRow(w, transactionId, date, description) ==
    IF ~w.ok THEN w
    ELSE IF ~(\E t \in w.transactions : t.id = transactionId)
        THEN Throw(w, "Transaction not found")
    ELSE [w EXCEPT !.transactions =
            {IF t.id = transactionId
             THEN [t EXCEPT !.transaction_date = date, !.description = description]
             ELSE t : t \in @}]

_updateFullTransaction(transactionId, updateData) ==
    LET v == IF updateData.date = NoDate \/ updateData.description = ""
             THEN "Date, description, and journal entries are required for full update"
             ELSE validateTransaction(updateData)
    IN
    IF v # "ok"
    THEN /\ last' = Rejected("_updateFullTransaction", transactionId, v)
         /\ UNCHANGED <<accounts, transactions, journal_entries, transactions_id_seq, issued>>
         /\ UNCHANGED sessions
    ELSE LET before == Work(accounts, transactions, journal_entries)
             oldEntries == EntriesOf(journal_entries, transactionId)
             reversed == ReverseEntries(
                            RequireEntries(before, oldEntries, "No existing transaction found"),
                            oldEntries)
             after == PostEntries(
                         UpdateTransactionRow(DeleteEntries(reversed, transactionId),
                                              transactionId, updateData.date,
                                              updateData.description),
                         transactionId, updateData.entries)
             result == transaction(before, after)
         IN /\ Commit(result)
            /\ UNCHANGED <<transactions_id_seq, issued>>
            /\ UNCHANGED sessions
            /\ last' = Outcome("_updateFullTransaction", transactionId, before, after,
                               SameEntries(oldEntries, updateData.entries))

isFullUpdate(updateData) == "entries" \in DOMAIN updateData

updateTransaction(transactionId, updateData) ==
    IF isFullUpdate(updateData)
    THEN _updateFullTransaction(transactionId, updateData)
    ELSE IF updateData.date = NoDate \/ updateData.description = ""
    THEN /\ last' = Rejected("updateTransaction", transactionId,
                             "Transaction date and description are required")
         /\ UNCHANGED <<accounts, transactions, journal_entries, transactions_id_seq, issued>>
         /\ UNCHANGED sessions
    ELSE LET before == Work(accounts, transactions, journal_entries)
             after == UpdateTransactionRow(before, transactionId, updateData.date,
                                           updateData.description)
         IN /\ Commit(IF after.ok THEN after ELSE before)
            /\ UNCHANGED <<transactions_id_seq, issued>>
            /\ UNCHANGED sessions
            /\ last' = Outcome("updateTransaction", transactionId, before, after,
                               \E t \in transactions :
                                    /\ t.id = transactionId
                                    /\ t.transaction_date = updateData.date
                                    /\ t.description = updateData.description)

\* DELETE FROM transactions WHERE id = $1 (its journal entries cascade)
DeleteTransactionRow(w, transactionId) ==
    IF ~w.ok THEN w
    ELSE [w EXCEPT !.transactions = {t \in @ : t.id # transactionId},
                   !.journal_entries = [t \in DOMAIN @ \ {transactionId} |-> @[t]]]

deleteTransaction(transactionId) ==
    LET before == Work(accounts, transactions, journal_entries)
        entries == EntriesOf(journal_entries, transactionId)
        reversed == ReverseEntries(RequireEntries(before, entries, "Transaction not found"),
                                   entries)
        after == DeleteTransactionRow(DeleteEntries(reversed, transactionId), transactionId)
        result == transaction(before, after)
    IN /\ Commit(result)
       /\ UNCHANGED <<transactions_id_seq, issued>>
       /\ UNCHANGED sessions
       /\ last' = Outcome("deleteTransaction", transactionId, before, after, FALSE)

\* ------------------------------------------------------------ the books
\* Six of the default accounts initializeDatabase inserts, one of each kind the
\* reports tell apart.
BooksChart ==
    [id \in 1..6 |->
        [account_code |-> <<1001, 2001, 3001, 3003, 4001, 5002>>[id],
         account_name |-> <<"Cash", "Accounts Payable", "Owner's Capital", "Drawings",
                            "Sales Revenue", "Salary Expense">>[id],
         account_type |-> <<"Asset", "Liability", "Capital", "Capital",
                            "Revenue", "Expense">>[id],
         normal_balance |-> <<"Debit", "Credit", "Credit", "Debit", "Credit", "Debit">>[id],
         balance |-> 0,
         is_active |-> TRUE]]

\* an account id past the books' chart
NoSuchAccountId == Cardinality(DOMAIN BooksChart) + 1

BookDates == 1..MaxBookDate

\* whole-cent postings of 0.01: owner's capital paid in, a cash sale, salary on
\* credit, drawings, and one transaction with two entries for each of two accounts
BookEntries ==
    {<<[account_id |-> 1, amount |-> 2, entry_type |-> "Debit"],
       [account_id |-> 3, amount |-> 2, entry_type |-> "Credit"]>>,
     <<[account_id |-> 1, amount |-> 2, entry_type |-> "Debit"],
       [account_id |-> 5, amount |-> 2, entry_type |-> "Credit"]>>,
     <<[account_id |-> 6, amount |-> 2, entry_type |-> "Debit"],
       [account_id |-> 2, amount |-> 2, entry_type |-> "Credit"]>>,
     <<[account_id |-> 4, amount |-> 2, entry_type |-> "Debit"],
       [account_id |-> 1, amount |-> 2, entry_type |-> "Credit"]>>,
     <<[account_id |-> 1, amount |-> 2, entry_type |-> "Credit"],
       [account_id |-> 1, amount |-> 2, entry_type |-> "Debit"],
       [account_id |-> 3, amount |-> 2, entry_type |-> "Debit"],
       [account_id |-> 3, amount |-> 2, entry_type |-> "Credit"]>>}

BookDrafts == [date : BookDates, description : DescriptionInputs, entries : BookEntries]

\* updateData of a basic edit of the books
BookUpdates == [date : BookDates, description : DescriptionInputs]

AccountTypes == {"Asset", "Liability", "Capital", "Revenue", "Expense"}

\* updateData of updateAccount: one that passes validateAccountData, one without
\* a name
AccountUpdates ==
    {[account_name |-> n, account_type |-> "Asset", normal_balance |-> "Debit"] :
        n \in {"Trade Creditors", ""}}

\* account ids the account calls are given
AccountOpInputs == {2, NoSuchAccountId}

\* The first error validateAccountData throws, or "ok".
validateAccountData(accountData) ==
    IF accountData.account_name = "" THEN "Account name is required"
    ELSE IF accountData.account_type \notin AccountTypes
        THEN "Account type must be one of: Asset, Liability, Capital, Revenue, Expense"
    ELSE IF accountData.normal_balance \notin EntryTypes
        THEN "Normal balance must be either Debit or Credit"
    ELSE "ok"

\* a count that finds no journal entry, whatever the account
transaction_count_Zero(jes, accountId) == 0

\* SELECT COUNT(*) as transaction_count FROM journal_entries WHERE account_id = $1
transaction_count(jes, accountId) ==
    Cardinality({r \in UNION {{<<t, i>> : i \in 1..Len(jes[t])} : t \in DOMAIN jes} :
                    jes[r[1]][r[2]].account_id = accountId})

Returned(op, id) ==
    [op |-> op, id |-> id, status |-> "ok", error |-> "", dirty |-> FALSE,
     unchanged |-> FALSE, rows |-> <<>>, balances |-> <<>>]

updateAccount(accountId, updateData) ==
    LET v == validateAccountData(updateData)
        error ==
            IF v # "ok" THEN v
            ELSE IF transaction_count(journal_entries, accountId) > 0
                THEN "Cannot update account that has transactions"
            ELSE IF accountId \notin DOMAIN accounts \/ ~accounts[accountId].is_active
                THEN "Account not found or already deleted"
            ELSE ""
    IN /\ IF error # ""
          THEN /\ last' = Rejected("updateAccount", accountId, error)
               /\ UNCHANGED accounts
          ELSE /\ accounts' = [accounts EXCEPT
                                  ![accountId].account_name = updateData.account_name,
                                  ![accountId].account_type = updateData.account_type,
                                  ![accountId].normal_balance = updateData.normal_balance]
               /\ last' = Returned("updateAccount", accountId)
       /\ UNCHANGED <<transactions, journal_entries, transactions_id_seq, issued>>
       /\ UNCHANGED sessions

deleteAccount(accountId) ==
    LET error ==
            IF transaction_count(journal_entries, accountId) > 0
                THEN "Cannot delete account that has transactions"
            ELSE IF accountId \notin DOMAIN accounts \/ ~accounts[accountId].is_active
                THEN "Account not found or already deleted"
            ELSE ""
    IN /\ IF error # ""
          THEN /\ last' = Rejected("deleteAccount", accountId, error)
               /\ UNCHANGED accounts
          ELSE /\ accounts' = [accounts EXCEPT ![accountId].is_active = FALSE]
               /\ last' = Returned("deleteAccount", accountId)
       /\ UNCHANGED <<transactions, journal_entries, transactions_id_seq, issued>>
       /\ UNCHANGED sessions

\* ------------------------------------------------------ concurrent calls
\* Two pool connections, each running one call at a time, one statement per
\* step.  The store is PostgreSQL at READ COMMITTED: a statement
\* sees what is committed and its own unit's writes; an UPDATE locks its row
\* until the unit ends; an INSERT of a transaction_number that another open
\* unit has inserted waits on the unique index for that unit to end.
Sessions == {"c1", "c2"}

NoRequest == [date |-> NoDate, description |-> "", entries |-> <<>>]

NoLocals == [call |-> "", nextTransactionNumber |-> 0, transactionId |-> 0, i |-> 0,
             normal_balance |-> "", error |-> "", empty |-> FALSE, old |-> <<>>]

\* By an open unit: the transactions rows inserted, the journal rows inserted
\* for its transaction, the balances written (rows locked), the transactions
\* whose journal rows it deleted, the transactions rows it deleted and the
\* transactions rows as it updated them.
NoWrites == [transactions |-> {}, journal_entries |-> <<>>, balance |-> <<>>,
             deleted |-> {}, removed |-> {}, updated |-> {}]

NoResult == [status |-> "none", error |-> "", transactionNumber |-> 0]

\* requests of the concurrent calls: a whole-cent posting, a half-cent posting
\* the other way round, and a posting whose second entry names no account
ConcDrafts ==
    {[date |-> 1, description |-> "memo", entries |-> e] : e \in
        {<<[account_id |-> 1, amount |-> 2, entry_type |-> "Debit"],
           [account_id |-> 2, amount |-> 2, entry_type |-> "Credit"]>>,
         <<[account_id |-> 1, amount |-> 1, entry_type |-> "Credit"],
           [account_id |-> 2, amount |-> 1, entry_type |-> "Debit"]>>,
         <<[account_id |-> 1, amount |-> 2, entry_type |-> "Credit"],
           [account_id |-> MissingAccountId, amount |-> 2, entry_type |-> "Debit"]>>}}

\* the tables as a statement of session p sees them
View(p) ==
    Work([a \in DOMAIN accounts |->
            IF a \in DOMAIN tx[p].balance
            THEN [accounts[a] EXCEPT !.balance = tx[p].balance[a]]
            ELSE accounts[a]],
         {t \in transactions : t.id \notin tx[p].removed \cup {u.id : u \in tx[p].updated}}
            \cup tx[p].updated \cup tx[p].transactions,
         LET kept == IF tx[p].deleted = {} THEN journal_entries
                     ELSE [t \in DOMAIN journal_entries \ tx[p].deleted |->
                              journal_entries[t]]
         IN IF tx[p].journal_entries = <<>> THEN kept
            ELSE kept @@ (loc[p].transactionId :> tx[p].journal_entries))

\* the statement threw: the callback unwinds to transaction()'s catch
Fail(p, msg) ==
    /\ loc' = [loc EXCEPT ![p].error = msg]
    /\ pc' = [pc EXCEPT ![p] = "End"]

\* createTransaction up to BEGIN: validateTransaction, then open the unit
BeginCreate(p, transactionData) ==
    /\ pc[p] = "idle"
    /\ LET v == validateTransaction(transactionData) IN
       IF v # "ok"
       THEN /\ pc' = [pc EXCEPT ![p] = "done"]
            /\ ret' = [ret EXCEPT ![p] = [status |-> "error", error |-> v,
                                          transactionNumber |-> 0]]
            /\ req' = [req EXCEPT ![p] = transactionData]
            /\ UNCHANGED loc
       ELSE /\ transactions_id_seq
                + Cardinality({q \in Sessions : pc[q] \in {"SelectMax", "InsertTransaction"}})
               < MaxTxnId
            /\ pc' = [pc EXCEPT ![p] = "SelectMax"]
            /\ req' = [req EXCEPT ![p] = transactionData]
            /\ loc' = [loc EXCEPT ![p] = [NoLocals EXCEPT !.call = "createTransaction",
                                                          !.empty = (transactions = {})]]
            /\ UNCHANGED ret
    /\ UNCHANGED <<accounts, transactions, journal_entries, transactions_id_seq, issued,
                   last, tx>>

\* SELECT COALESCE(MAX(transaction_number), 0) + 1 as nextTID FROM transactions
SelectMaxNumber(p) ==
    /\ pc[p] = "SelectMax"
    /\ loc' = [loc EXCEPT ![p].nextTransactionNumber = nextTID(View(p).transactions)]
    /\ pc' = [pc EXCEPT ![p] = "InsertTransaction"]
    /\ UNCHANGED <<accounts, transactions, journal_entries, transactions_id_seq, issued,
                   last, req, tx, ret>>

\* INSERT INTO transactions ... RETURNING id, transaction_number
InsertTransactionRow(p) ==
    /\ pc[p] = "InsertTransaction"
    /\ ~\E q \in Sessions \ {p} : \E t \in tx[q].transactions :
            t.transaction_number = loc[p].nextTransactionNumber
    /\ LET id == transactions_id_seq + 1
           w == InsertTransaction(View(p), id, loc[p].nextTransactionNumber,
                                  req[p].date, req[p].description)
       IN /\ transactions_id_seq' = id
          /\ IF w.ok
             THEN /\ tx' = [tx EXCEPT ![p].transactions = w.transactions \ transactions]
                  /\ loc' = [loc EXCEPT ![p].transactionId = id, ![p].i = 1]
                  /\ pc' = [pc EXCEPT ![p] = "InsertEntry"]
             ELSE Fail(p, w.error) /\ UNCHANGED tx
    /\ UNCHANGED <<accounts, transactions, journal_entries, issued, last, req, ret>>

\* INSERT INTO journal_entries ... for entries[i]
InsertEntryRow(p) ==
    /\ pc[p] = "InsertEntry"
    /\ LET w == InsertJournalEntry(View(p), loc[p].transactionId, req[p].entries[loc[p].i])
       IN IF w.ok
          THEN /\ tx' = [tx EXCEPT ![p].journal_entries =
                                       w.journal_entries[loc[p].transactionId]]
               /\ pc' = [pc EXCEPT ![p] = "SelectAccount"]
               /\ UNCHANGED loc
          ELSE Fail(p, w.error) /\ UNCHANGED tx
    /\ UNCHANGED <<accounts, transactions, journal_entries, transactions_id_seq, issued,
                   last, req, ret>>

\* _updateAccountBalanceInternal: SELECT normal_balance FROM accounts WHERE id = $1
SelectAccountRow(p) ==
    /\ pc[p] = "SelectAccount"
    /\ LET accountId == req[p].entries[loc[p].i].account_id
           w == SelectNormalBalance(View(p), accountId)
       IN IF w.ok
          THEN /\ loc' = [loc EXCEPT ![p].normal_balance =
                                         w.accounts[accountId].normal_balance]
               /\ pc' = [pc EXCEPT ![p] = "UpdateAccount"]
          ELSE Fail(p, w.error)
    /\ UNCHANGED <<accounts, transactions, journal_entries, transactions_id_seq, issued,
                   last, req, tx, ret>>

\* _updateAccountBalanceInternal: UPDATE accounts SET balance = balance + $1 ...;
\* it waits while another open unit holds the row
UpdateAccountRow(p) ==
    /\ pc[p] = "UpdateAccount"
    /\ LET entry == req[p].entries[loc[p].i]
           w == UpdateBalance(View(p), entry.account_id, loc[p].normal_balance,
                              entry.amount, entry.entry_type)
       IN /\ \A q \in Sessions \ {p} : entry.account_id \notin DOMAIN tx[q].balance
          /\ IF w.ok
             THEN /\ tx' = [tx EXCEPT ![p].balance =
                                (entry.account_id :> w.accounts[entry.account_id].balance)
                                @@ @]
                  /\ IF loc[p].i < Len(req[p].entries)
                     THEN /\ loc' = [loc EXCEPT ![p].i = @ + 1]
                          /\ pc' = [pc EXCEPT ![p] = "InsertEntry"]
                     ELSE /\ pc' = [pc EXCEPT ![p] = "End"]
                          /\ UNCHANGED loc
             ELSE Fail(p, w.error) /\ UNCHANGED tx
    /\ UNCHANGED <<accounts, transactions, journal_entries, transactions_id_seq, issued,
                   last, req, ret>>

\* The connection full edits and deletes are issued on; with one such
\* connection no two open units write the same transactions row.
Editor == "c1"

\* _updateFullTransaction up to BEGIN: its checks of updateData, then open the unit
BeginFullUpdate(p, transactionId, updateData) ==
    /\ pc[p] = "idle"
    /\ LET v == IF updateData.date = NoDate \/ updateData.description = ""
                THEN "Date, description, and journal entries are required for full update"
                ELSE validateTransaction(updateData)
       IN IF v # "ok"
          THEN /\ pc' = [pc EXCEPT ![p] = "done"]
               /\ ret' = [ret EXCEPT ![p] = [status |-> "error", error |-> v,
                                             transactionNumber |-> 0]]
               /\ UNCHANGED loc
          ELSE /\ pc' = [pc EXCEPT ![p] = "SelectEntries"]
               /\ loc' = [loc EXCEPT ![p] = [NoLocals EXCEPT
                                                !.call = "_updateFullTransaction",
                                                !.transactionId = transactionId]]
               /\ UNCHANGED ret
    /\ req' = [req EXCEPT ![p] = updateData]
    /\ UNCHANGED <<accounts, transactions, journal_entries, transactions_id_seq, issued,
                   last, tx>>

\* deleteTransaction up to BEGIN
BeginDelete(p, transactionId) ==
    /\ pc[p] = "idle"
    /\ pc' = [pc EXCEPT ![p] = "SelectEntries"]
    /\ loc' = [loc EXCEPT ![p] = [NoLocals EXCEPT !.call = "deleteTransaction",
                                                  !.transactionId = transactionId]]
    /\ UNCHANGED <<accounts, transactions, journal_entries, transactions_id_seq, issued,
                   last, req, tx, ret>>

\* SELECT * FROM journal_entries WHERE transaction_id = $1, and the throw on no row
SelectEntries(p) ==
    /\ pc[p] = "SelectEntries"
    /\ LET rows == EntriesOf(View(p).journal_entries, loc[p].transactionId)
           w == RequireEntries(View(p), rows,
                               IF loc[p].call = "deleteTransaction"
                               THEN "Transaction not found"
                               ELSE "No existing transaction found")
       IN IF w.ok
          THEN /\ loc' = [loc EXCEPT ![p].old = rows, ![p].i = 1]
               /\ pc' = [pc EXCEPT ![p] = "ReverseSelect"]
          ELSE Fail(p, w.error)
    /\ UNCHANGED <<accounts, transactions, journal_entries, transactions_id_seq, issued,
                   last, req, tx, ret>>

\* _updateAccountBalanceInternal for old row i: SELECT normal_balance ...
ReverseSelectAccount(p) ==
    /\ pc[p] = "ReverseSelect"
    /\ LET accountId == loc[p].old[loc[p].i].account_id
           w == SelectNormalBalance(View(p), accountId)
       IN IF w.ok
          THEN /\ loc' = [loc EXCEPT ![p].normal_balance =
                                         w.accounts[accountId].normal_balance]
               /\ pc' = [pc EXCEPT ![p] = "ReverseUpdate"]
          ELSE Fail(p, w.error)
    /\ UNCHANGED <<accounts, transactions, journal_entries, transactions_id_seq, issued,
                   last, req, tx, ret>>

\* _updateAccountBalanceInternal for old row i: UPDATE accounts ... with the
\* reversed entry type; it waits while another open unit holds the row
ReverseUpdateAccount(p) ==
    /\ pc[p] = "ReverseUpdate"
    /\ LET oldEntry == loc[p].old[loc[p].i]
           w == UpdateBalance(View(p), oldEntry.account_id, loc[p].normal_balance,
                              oldEntry.amount, reverseEntryType(oldEntry.entry_type))
       IN /\ \A q \in Sessions \ {p} : oldEntry.account_id \notin DOMAIN tx[q].balance
          /\ IF w.ok
             THEN /\ tx' = [tx EXCEPT ![p].balance =
                                (oldEntry.account_id :> w.accounts[oldEntry.account_id].balance)
                                @@ @]
                  /\ IF loc[p].i < Len(loc[p].old)
                     THEN /\ loc' = [loc EXCEPT ![p].i = @ + 1]
                          /\ pc' = [pc EXCEPT ![p] = "ReverseSelect"]
                     ELSE /\ pc' = [pc EXCEPT ![p] = "DeleteEntries"]
                          /\ UNCHANGED loc
             ELSE Fail(p, w.error) /\ UNCHANGED tx
    /\ UNCHANGED <<accounts, transactions, journal_entries, transactions_id_seq, issued,
                   last, req, ret>>

\* DELETE FROM journal_entries WHERE transaction_id = $1
DeleteJournalRows(p) ==
    /\ pc[p] = "DeleteEntries"
    /\ tx' = [tx EXCEPT ![p].deleted = @ \cup {loc[p].transactionId}]
    /\ pc' = [pc EXCEPT ![p] = IF loc[p].call = "deleteTransaction"
                               THEN "DeleteTransaction" ELSE "UpdateTransaction"]
    /\ UNCHANGED <<accounts, transactions, journal_entries, transactions_id_seq, issued,
                   last, req, loc, ret>>

\* deleteTransaction: DELETE FROM transactions WHERE id = $1
DeleteRow(p) ==
    /\ pc[p] = "DeleteTransaction"
    /\ tx' = [tx EXCEPT ![p].removed = @ \cup {loc[p].transactionId}]
    /\ pc' = [pc EXCEPT ![p] = "End"]
    /\ UNCHANGED <<accounts, transactions, journal_entries, transactions_id_seq, issued,
                   last, req, loc, ret>>

\* _updateFullTransaction: UPDATE transactions SET ... WHERE id = $5, the throw
\* on rowCount 0, then on to the loop over the new entries
UpdateRow(p) ==
    /\ pc[p] = "UpdateTransaction"
    /\ LET w == UpdateTransactionRow(View(p), loc[p].transactionId, req[p].date,
                                     req[p].description)
       IN IF w.ok
          THEN /\ tx' = [tx EXCEPT ![p].updated =
                            {t \in w.transactions : t.id = loc[p].transactionId}]
               /\ loc' = [loc EXCEPT ![p].i = 1]
               /\ pc' = [pc EXCEPT ![p] = "InsertEntry"]
          ELSE Fail(p, w.error) /\ UNCHANGED tx
    /\ UNCHANGED <<accounts, transactions, journal_entries, transactions_id_seq, issued,
                   last, req, ret>>

\* db.js transaction(): COMMIT after the callback returned, ROLLBACK after it threw
EndUnit(p) ==
    /\ pc[p] = "End"
    /\ LET before == Work(accounts, transactions, journal_entries)
           after == IF loc[p].error = "" THEN View(p) ELSE Throw(View(p), loc[p].error)
           result == transaction(before, after)
       IN /\ Commit(result)
          /\ issued' = IF result.ok /\ loc[p].call = "createTransaction"
                       THEN issued \cup {[id |-> loc[p].transactionId,
                                          number |-> loc[p].nextTransactionNumber]}
                       ELSE issued
          /\ ret' = [ret EXCEPT ![p] =
                        IF result.ok
                        THEN [status |-> "ok", error |-> "",
                              transactionNumber |-> loc[p].nextTransactionNumber]
                        ELSE [status |-> "error", error |-> result.error,
                              transactionNumber |-> 0]]
    /\ tx' = [tx EXCEPT ![p] = NoWrites]
    /\ pc' = [pc EXCEPT ![p] = "done"]
    /\ UNCHANGED <<transactions_id_seq, last, req, loc>>

\* the call's promise settles and the connection takes its next request
Return(p) ==
    /\ pc[p] = "done"
    /\ pc' = [pc EXCEPT ![p] = "idle"]
    /\ req' = [req EXCEPT ![p] = NoRequest]
    /\ loc' = [loc EXCEPT ![p] = NoLocals]
    /\ ret' = [ret EXCEPT ![p] = NoResult]
    /\ UNCHANGED <<accounts, transactions, journal_entries, transactions_id_seq, issued,
                   last, tx>>

\* ---------------------------------------------------------- specification
\* After initializeDatabase: the chart of accounts, every balance 0, no transaction.
Init ==
    /\ accounts = ChartOfAccounts
    /\ transactions = {}
    /\ journal_entries = <<>>      \* no transaction has rows
    /\ transactions_id_seq = 0
    /\ issued = {}
    /\ last = Rejected("none", 0, "")
    /\ pc = [p \in Sessions |-> "idle"]
    /\ req = [p \in Sessions |-> NoRequest]
    /\ loc = [p \in Sessions |-> NoLocals]
    /\ tx = [p \in Sessions |-> NoWrites]
    /\ ret = [p \in Sessions |-> NoResult]

\* Calls executed one at a time.
Next ==
    \/ \E d \in Drafts : createTransaction(d)
    \/ \E id \in TxnIdInputs : \E u \in Drafts \cup BasicUpdates : updateTransaction(id, u)
    \/ \E id \in TxnIdInputs : deleteTransaction(id)

Spec == Init /\ [][Next]_vars

\* createTransaction calls running on two connections at once.
NextConc ==
    \/ \E p \in Sessions : \E d \in ConcDrafts : BeginCreate(p, d)
    \/ \E p \in Sessions : SelectMaxNumber(p)
    \/ \E p \in Sessions : InsertTransactionRow(p)
    \/ \E p \in Sessions : InsertEntryRow(p)
    \/ \E p \in Sessions : SelectAccountRow(p)
    \/ \E p \in Sessions : UpdateAccountRow(p)
    \/ \E p \in Sessions : EndUnit(p)
    \/ \E p \in Sessions : Return(p)

SpecConc == Init /\ [][NextConc]_vars

\* After initializeDatabase, with the books' chart of accounts.
InitBooks ==
    /\ accounts = BooksChart
    /\ transactions = {}
    /\ journal_entries = <<>>
    /\ transactions_id_seq = 0
    /\ issued = {}
    /\ last = Rejected("none", 0, "")
    /\ pc = [p \in Sessions |-> "idle"]
    /\ req = [p \in Sessions |-> NoRequest]
    /\ loc = [p \in Sessions |-> NoLocals]
    /\ tx = [p \in Sessions |-> NoWrites]
    /\ ret = [p \in Sessions |-> NoResult]

\* Postings, basic edits and account maintenance, one call at a time.
NextAccounts ==
    \/ \E d \in BookDrafts : createTransaction(d)
    \/ \E id \in TxnIdInputs : \E u \in BookUpdates : updateTransaction(id, u)
    \/ \E id \in TxnIdInputs : deleteTransaction(id)
    \/ \E a \in AccountOpInputs : \E u \in AccountUpdates : updateAccount(a, u)
    \/ \E a \in AccountOpInputs : deleteAccount(a)

SpecAccounts == InitBooks /\ [][NextAccounts]_vars

\* ------------------------------------------------------------ properties
db == <<accounts, transactions, journal_entries>>

RECURSIVE SignedSum(_, _, _)
\* signed effect of journal rows on an account: +amount where the entry type is
\* the account's normal balance, -amount otherwise
SignedSum(rows, accountId, normal_balance) ==
    IF rows = <<>> THEN 0
    ELSE (IF Head(rows).account_id # accountId THEN 0
          ELSE IF Head(rows).entry_type = normal_balance THEN Head(rows).amount
          ELSE -Head(rows).amount)
         + SignedSum(Tail(rows), accountId, normal_balance)

RECURSIVE JournalSum(_, _, _, _)
JournalSum(jes, ids, accountId, normal_balance) ==
    IF ids = {} THEN 0
    ELSE LET t == CHOOSE x \in ids : TRUE
         IN SignedSum(jes[t], accountId, normal_balance)
            + JournalSum(jes, ids \ {t}, accountId, normal_balance)

\* signed effect of the stored rows of transaction t on account a
Effect(jes, t, a) == SignedSum(EntriesOf(jes, t), a, accounts[a].normal_balance)

UnitCalls == {"createTransaction", "_updateFullTransaction", "deleteTransaction"}

\* C1: after any sequence of create, full edit, basic edit and delete calls run
\* one at a time, every account's cached balance equals the signed sum of the
\* journal entries stored for it.
C1_BalanceEqualsJournal ==
    \A a \in DOMAIN accounts :
        accounts[a].balance =
            JournalSum(journal_entries, DOMAIN journal_entries, a, accounts[a].normal_balance)

\* C2: a createTransaction, full edit or deleteTransaction whose unit of work
\* threw leaves the transaction rows, the journal entries and every balance as
\* they were before the call, and the caller gets the error.
C2_FailedUnitRolledBack ==
    [][(last'.op \in UnitCalls /\ last'.status = "error") => UNCHANGED db]_vars

\* a createTransaction threw on its second entry's account, after it had
\* inserted the transaction row, the first entry and updated a balance
C2_Witness ==
    /\ last.op = "createTransaction"
    /\ last.status = "error"
    /\ last.error = "foreign_key_violation account_id"
    /\ last.dirty

\* the totals of a draft differ by 0.01 or more
Imbalanced(entries) == Abs(totalDebits(entries) - totalCredits(entries)) >= Tolerance

\* C3: createTransaction of a draft whose debit and credit totals differ is
\* rejected before any write: it throws, no row is inserted, no number is
\* issued, no balance changes.  (Stated for every call: a createTransaction that
\* was not so rejected had a draft whose totals do not differ.)
C3_ImbalancedDraftRejected ==
    [][(/\ last'.op = "createTransaction"
        /\ ~(last'.status = "error" /\ ~last'.dirty /\ UNCHANGED <<db, issued>>))
       => \A d \in Drafts : createTransaction(d) => ~Imbalanced(d.entries)]_vars

\* C4: a draft is posted by createTransaction or by a full edit only if its
\* totals differ by strictly less than 0.01 and its entries name at least two
\* distinct accounts.
C4_AcceptedOnlyIfBalanced ==
    [][(last'.op \in {"createTransaction", "_updateFullTransaction"} /\ last'.status = "ok")
       => \A d \in Drafts :
            (createTransaction(d) \/ updateTransaction(last'.id, d))
            => /\ Abs(totalDebits(d.entries) - totalCredits(d.entries)) < Tolerance
               /\ Cardinality({d.entries[i].account_id : i \in 1..Len(d.entries)}) >= 2]_vars

\* C5: a successful createTransaction inserts one transaction row and one journal
\* entry per draft entry, and changes every account's balance by the signed sum
\* of the entries inserted for it (so not at all where the draft names it not).
C5_CreateEffect ==
    [][(last'.op = "createTransaction" /\ last'.status = "ok")
       => /\ Cardinality(transactions') = Cardinality(transactions) + 1
          /\ \A d \in Drafts : createTransaction(d)
                => Len(EntriesOf(journal_entries', last'.id)) = Len(d.entries)
          /\ \A a \in DOMAIN accounts :
                accounts'[a].balance
                    = accounts[a].balance + Effect(journal_entries', last'.id, a)]_vars

\* C6: a successful createTransaction is given a number greater than the number
\* of every earlier successful createTransaction, deleted since or not; so no
\* number is given twice.
C6_NumbersNeverReused ==
    \A x \in issued : \A y \in issued : x.id < y.id => x.number < y.number

\* the draft passes validateTransaction and names only accounts that exist
ValidOnStore(d) ==
    /\ validateTransaction(d) = "ok"
    /\ \A i \in 1..Len(d.entries) : d.entries[i].account_id \in DOMAIN accounts

\* both connections have finished a createTransaction that was called while the
\* journal was still empty
BothCalledOnEmptyJournal ==
    \A p \in Sessions : pc[p] = "done" /\ loc[p].empty

\* C7: two createTransaction calls with valid drafts issued concurrently on an
\* empty journal both succeed, one with number 1 and the other with number 2,
\* whatever the interleaving (a balance column running out of digits aside).
C7_ConcurrentCreatesNumbered ==
    (/\ BothCalledOnEmptyJournal
     /\ \A p \in Sessions : ValidOnStore(req[p]) /\ ret[p].error # "numeric field overflow")
    => /\ \A p \in Sessions : ret[p].status = "ok"
       /\ {ret[p].transactionNumber : p \in Sessions} = {1, 2}

\* C8: when two createTransaction calls touching the same accounts run
\* concurrently from an empty journal and both commit, every balance is its
\* initial value, 0, plus the signed effects of both postings.
C8_NoLostUpdate ==
    (BothCalledOnEmptyJournal /\ \A p \in Sessions : ret[p].status = "ok")
    => \A a \in DOMAIN accounts :
         accounts[a].balance =
            JournalSum(journal_entries, {loc[p].transactionId : p \in Sessions}, a,
                       accounts[a].normal_balance)

\* the stored rows are the draft's entries, in order, their amounts as the
\* DECIMAL(15,2) column holds them
RowsOfDraft(rows, entries) ==
    /\ Len(rows) = Len(entries)
    /\ \A i \in 1..Len(rows) :
         /\ rows[i].account_id = entries[i].account_id
         /\ rows[i].entry_type = entries[i].entry_type
         /\ rows[i].amount = ToDecimal2(entries[i].amount)

\* C9: a successful full edit of transaction T leaves T with the new draft's
\* entries, date and description, keeps T's id and number, and leaves every
\* balance at its old value minus the signed effect of T's old entries plus the
\* signed effect of T's new entries.
C9_FullEditEffect ==
    [][(last'.op = "_updateFullTransaction" /\ last'.status = "ok")
       => LET T == last'.id IN
          /\ \A d \in Drafts : updateTransaction(T, d)
                => /\ RowsOfDraft(EntriesOf(journal_entries', T), d.entries)
                   /\ \E t \in transactions' :
                        /\ t.id = T
                        /\ t.transaction_date = d.date
                        /\ t.description = d.description
          /\ \E t \in transactions : \E u \in transactions' :
                t.id = T /\ u.id = T /\ u.transaction_number = t.transaction_number
          /\ {t.id : t \in transactions'} = {t.id : t \in transactions}
          /\ \A a \in DOMAIN accounts :
                accounts'[a].balance
                    = accounts[a].balance - Effect(journal_entries, T, a)
                      + Effect(journal_entries', T, a)]_vars

\* C10: a successful full edit whose entries are those the transaction already
\* has leaves every account balance as it was.
C10_UnchangedEditKeepsBalances ==
    [][(last'.op = "_updateFullTransaction" /\ last'.status = "ok" /\ last'.unchanged)
       => \A a \in DOMAIN accounts : accounts'[a].balance = accounts[a].balance]_vars

\* a full edit with the transaction's own entries has succeeded on a transaction
\* that moved a balance
C10_Witness ==
    /\ last.op = "_updateFullTransaction"
    /\ last.status = "ok"
    /\ last.unchanged
    /\ \E a \in DOMAIN accounts : Effect(journal_entries, last.id, a) # 0

\* C11: a successful deleteTransaction takes the signed effect of each of the
\* transaction's entries off the balances and removes its entries and its row,
\* leaving every other row alone; a createTransaction that follows it with the
\* entries of the deleted transaction leaves every balance as it was before the
\* delete.
C11_DeleteThenRecreate ==
    [][/\ (last'.op = "deleteTransaction" /\ last'.status = "ok")
          => LET T == last'.id IN
             /\ T \in DOMAIN journal_entries
             /\ transactions' = {t \in transactions : t.id # T}
             /\ journal_entries' = [t \in DOMAIN journal_entries \ {T} |-> journal_entries[t]]
             /\ \A a \in DOMAIN accounts :
                    accounts'[a].balance
                        = accounts[a].balance - Effect(journal_entries, T, a)
       /\ (last'.op = "createTransaction" /\ last'.status = "ok" /\ last'.unchanged)
          => \A a \in DOMAIN accounts : accounts'[a].balance = last.balances[a]]_vars

\* a transaction that had moved a balance was deleted and then created again
\* with the same entries
C11_Witness ==
    /\ last.op = "createTransaction"
    /\ last.status = "ok"
    /\ last.unchanged
    /\ \E a \in DOMAIN accounts : accounts[a].balance # 0

\* C19: a full edit or a deleteTransaction of a transaction id that has no
\* journal entries throws and leaves transactions, journal entries and balances
\* as they were; so deleting a deleted transaction again reverses nothing.
C19_NoEntriesIsAnError ==
    [][(/\ last'.op \in {"_updateFullTransaction", "deleteTransaction"}
        /\ EntriesOf(journal_entries, last'.id) = <<>>)
       => (last'.status = "error" /\ UNCHANGED db)]_vars

\* a deleteTransaction of a transaction that was created and has since been
\* deleted threw
C19_Witness ==
    /\ last.op = "deleteTransaction"
    /\ last.error = "Transaction not found"
    /\ last.id \in {x.id : x \in issued}
    /\ last.id \notin {t.id : t \in transactions}

\* C12: a basic edit changes nothing but the date and description of the
\* transaction it addresses: every journal entry and balance stays, every
\* transaction keeps its id and number, and every other transaction row stays.
C12_BasicEditFrame ==
    [][last'.op = "updateTransaction"
       => /\ journal_entries' = journal_entries
          /\ accounts' = accounts
          /\ UNCHANGED <<issued, transactions_id_seq>>
          /\ {[id |-> t.id, number |-> t.transaction_number] : t \in transactions'}
                = {[id |-> t.id, number |-> t.transaction_number] : t \in transactions}
          /\ {t \in transactions' : t.id # last'.id} = {t \in transactions : t.id # last'.id}]_vars

\* a basic edit has given a transaction another date while a second transaction
\* is stored
C12_Witness ==
    /\ last.op = "updateTransaction"
    /\ last.status = "ok"
    /\ ~last.unchanged
    /\ Cardinality(transactions) = 2

\* some journal entry names the account
HasEntries(jes, accountId) ==
    \E t \in DOMAIN jes : \E i \in 1..Len(jes[t]) : jes[t][i].account_id = accountId

\* C18: updateAccount and deleteAccount of an account that has a journal entry
\* throw and change nothing; a successful deleteAccount only clears is_active of
\* an active account, whose row, code and balance stay.
C18_AccountOpsNeedNoEntries ==
    [][/\ (last'.op \in {"updateAccount", "deleteAccount"}
           /\ HasEntries(journal_entries, last'.id))
          => (last'.status = "error" /\ UNCHANGED db)
       /\ (last'.op = "deleteAccount" /\ last'.status = "ok")
          => /\ accounts[last'.id].is_active
             /\ accounts' = [accounts EXCEPT ![last'.id].is_active = FALSE]
             /\ UNCHANGED <<transactions, journal_entries>>]_vars

\* updateAccount was refused on an account with journal entries that an earlier
\* deleteAccount, when it had none, had made inactive
C18_Witness ==
    /\ last.op = "updateAccount"
    /\ last.error = "Cannot update account that has transactions"
    /\ ~accounts[last.id].is_active
    /\ accounts[last.id].account_code = BooksChart[last.id].account_code


\* -------------------------------------------------------------- reports
\* [startDate, endDate] pairs the period reports and the ledger are asked for
Periods == BookDates \X BookDates

\* accounts whose ledger is asked for: Cash, Accounts Payable (which the books
\* may have deactivated) and an id past the chart
LedgerInputs == {1, 2, NoSuchAccountId}

\* What a report returned: the period it was asked for and its result.
Report(op, id, period, result) ==
    [op |-> op, id |-> id, status |-> "ok", error |-> "", dirty |-> FALSE,
     unchanged |-> FALSE, rows |-> <<>>, balances |-> <<>>,
     period |-> period, result |-> result]

\* a report changes nothing in the store
ReadOnly ==
    /\ UNCHANGED <<accounts, transactions, journal_entries, transactions_id_seq, issued>>
    /\ UNCHANGED sessions

\* a SELECT ... FROM accounts that has lost its AND is_active = true
SelectActive_All(accts, types) ==
    {a \in DOMAIN accts : accts[a].account_type \in types}

\* SELECT ... FROM accounts WHERE account_type IN (types) AND is_active = true
SelectActive(accts, types) ==
    {a \in DOMAIN accts : accts[a].account_type \in types /\ accts[a].is_active}

RECURSIVE reduce(_, _)
\* items.reduce((sum, item) => sum + item, 0) over the rows ids of column
reduce(column, ids) ==
    IF ids = {} THEN 0
    ELSE LET a == CHOOSE x \in ids : TRUE
         IN column[a] + reduce(column, ids \ {a})

filter(rows, account_type) == {a \in DOMAIN rows : rows[a].account_type = account_type}

\* the result getBalanceSheet makes of the accounts rows its SELECT returns
balanceSheet(accts) ==
    LET ids == SelectActive(accts, {"Asset", "Liability", "Capital"})
        rows == [a \in ids |-> [account_type |-> accts[a].account_type,
                                normal_balance |-> accts[a].normal_balance,
                                balance |-> accts[a].balance]]
        balance == [a \in ids |-> rows[a].balance]
        signed == [a \in ids |-> IF rows[a].normal_balance = "Debit"
                                 THEN -rows[a].balance ELSE rows[a].balance]
    IN [rows |-> rows,
        totalAssets |-> reduce(balance, filter(rows, "Asset")),
        totalLiabilities |-> reduce(balance, filter(rows, "Liability")),
        totalCapital |-> reduce(signed, filter(rows, "Capital"))]

\* a getBalanceSheet whose SELECT reads what an open unit has written
getBalanceSheet_Dirty ==
    \E p \in Sessions :
        /\ last' = Report("getBalanceSheet", 0, <<>>, balanceSheet(View(p).accounts))
        /\ ReadOnly

\* One SELECT outside any unit of work: it reads the committed rows.
getBalanceSheet ==
    /\ last' = Report("getBalanceSheet", 0, <<>>, balanceSheet(accounts))
    /\ ReadOnly

getIncomeStatement ==
    LET ids == SelectActive(accounts, {"Revenue", "Expense"})
        rows == [a \in ids |-> [account_type |-> accounts[a].account_type,
                                balance |-> accounts[a].balance]]
        balance == [a \in ids |-> rows[a].balance]
        totalRevenue == reduce(balance, filter(rows, "Revenue"))
        totalExpenses == reduce(balance, filter(rows, "Expense"))
    IN /\ last' = Report("getIncomeStatement", 0, <<>>,
                         [rows |-> rows,
                          totalRevenue |-> totalRevenue,
                          totalExpenses |-> totalExpenses,
                          netIncome |-> totalRevenue - totalExpenses])
       /\ ReadOnly

\* t.transaction_date of the transactions row with this id
transaction_date(txns, transactionId) ==
    (CHOOSE t \in txns : t.id = transactionId).transaction_date

\* The rows of journal_entries je JOIN transactions t ON je.transaction_id = t.id
\* WHERE je.account_id = accountId, each as <<transaction id, place among the
\* transaction's entries>>.
JoinedEntries(txns, jes, accountId) ==
    {r \in UNION {{<<t, i>> : i \in 1..Len(jes[t])} :
                    t \in DOMAIN jes \cap {x.id : x \in txns}} :
        jes[r[1]][r[2]].account_id = accountId}

RECURSIVE SumSigned(_, _, _)
\* SUM(CASE WHEN normal_balance = je.entry_type THEN je.amount ELSE -je.amount END)
\* over joined rows
SumSigned(jes, rows, normal_balance) ==
    IF rows = {} THEN 0
    ELSE LET r == CHOOSE x \in rows : TRUE
             je == jes[r[1]][r[2]]
         IN (IF je.entry_type = normal_balance THEN je.amount ELSE -je.amount)
            + SumSigned(jes, rows \ {r}, normal_balance)

\* The period query: accounts a LEFT JOIN journal_entries je LEFT JOIN
\* transactions t WHERE ... AND (t.transaction_date IS NULL OR t.transaction_date
\* BETWEEN $1 AND $2) GROUP BY a.id.  An account without entries joins to one
\* row of NULLs, which the WHERE keeps; an account with entries joins to one row
\* per entry, of which the WHERE keeps those in range; an account none of whose
\* joined rows is kept has no group.
PeriodRows(accts, txns, jes, types, dbStartDate, dbEndDate) ==
    LET kept(a) == {r \in JoinedEntries(txns, jes, a) :
                        /\ transaction_date(txns, r[1]) >= dbStartDate
                        /\ transaction_date(txns, r[1]) <= dbEndDate}
        groups == {a \in SelectActive(accts, types) :
                        JoinedEntries(txns, jes, a) = {} \/ kept(a) # {}}
    IN [a \in groups |->
            [account_type |-> accts[a].account_type,
             period_balance |-> SumSigned(jes, kept(a), accts[a].normal_balance)]]

\* The query does not select a.normal_balance, so item.normal_balance is
\* undefined in the capital reduce and every capital row is added.
getBalanceSheetForPeriod(startDate, endDate) ==
    LET rows == PeriodRows(accounts, transactions, journal_entries,
                           {"Asset", "Liability", "Capital"}, startDate, endDate)
        period_balance == [a \in DOMAIN rows |-> rows[a].period_balance]
    IN /\ last' = Report("getBalanceSheetForPeriod", 0, <<startDate, endDate>>,
                         [rows |-> rows,
                          totalAssets |-> reduce(period_balance, filter(rows, "Asset")),
                          totalLiabilities |-> reduce(period_balance, filter(rows, "Liability")),
                          totalCapital |-> reduce(period_balance, filter(rows, "Capital"))])
       /\ ReadOnly

getIncomeStatementForPeriod(startDate, endDate) ==
    LET rows == PeriodRows(accounts, transactions, journal_entries,
                           {"Revenue", "Expense"}, startDate, endDate)
        period_balance == [a \in DOMAIN rows |-> rows[a].period_balance]
        totalRevenue == reduce(period_balance, filter(rows, "Revenue"))
        totalExpenses == reduce(period_balance, filter(rows, "Expense"))
    IN /\ last' = Report("getIncomeStatementForPeriod", 0, <<startDate, endDate>>,
                         [rows |-> rows,
                          totalRevenue |-> totalRevenue,
                          totalExpenses |-> totalExpenses,
                          netIncome |-> totalRevenue - totalExpenses])
       /\ ReadOnly


\* SELECT COALESCE(SUM(...), 0) as opening_balance ... WHERE je.account_id = $2
\* AND t.transaction_date <= $3: a start day counted into the opening balance
opening_balance_Inclusive(txns, jes, accountId, normal_balance, dbStartDate) ==
    SumSigned(jes, {r \in JoinedEntries(txns, jes, accountId) :
                        transaction_date(txns, r[1]) <= dbStartDate}, normal_balance)

\* SELECT COALESCE(SUM(...), 0) as opening_balance ... WHERE je.account_id = $2
\* AND t.transaction_date < $3
opening_balance(txns, jes, accountId, normal_balance, dbStartDate) ==
    SumSigned(jes, {r \in JoinedEntries(txns, jes, accountId) :
                        transaction_date(txns, r[1]) < dbStartDate}, normal_balance)

\* The orders in which ... WHERE je.account_id = $2 AND t.transaction_date
\* BETWEEN $3 AND $4 ORDER BY t.transaction_date, t.id may return its rows.  The
\* entries one transaction has for the account tie on both sort keys, and the
\* order of tied rows is whatever the executor produces.
transactionsResult(txns, jes, accountId, dbStartDate, dbEndDate) ==
    LET rows == {r \in JoinedEntries(txns, jes, accountId) :
                    /\ transaction_date(txns, r[1]) >= dbStartDate
                    /\ transaction_date(txns, r[1]) <= dbEndDate}
    IN {s \in [1..Cardinality(rows) -> rows] :
            /\ \A j, k \in DOMAIN s : j # k => s[j] # s[k]
            /\ \A j, k \in DOMAIN s : j < k =>
                  \/ transaction_date(txns, s[j][1]) < transaction_date(txns, s[k][1])
                  \/ /\ transaction_date(txns, s[j][1]) = transaction_date(txns, s[k][1])
                     /\ s[j][1] <= s[k][1]}

RECURSIVE ledgerEntries(_, _, _, _, _, _)
\* transactionsResult.rows.forEach: the lines from row i on, runningBalance being
\* the running balance before row i
ledgerEntries(txns, jes, rows, i, normal_balance, runningBalance) ==
    IF i \notin DOMAIN rows THEN <<>>
    ELSE LET je == jes[rows[i][1]][rows[i][2]]
             balanceEffect ==
                IF normal_balance = "Debit"
                THEN (IF je.entry_type = "Debit" THEN je.amount ELSE -je.amount)
                ELSE (IF je.entry_type = "Credit" THEN je.amount ELSE -je.amount)
         IN <<[transaction_id |-> rows[i][1],
               date |-> transaction_date(txns, rows[i][1]),
               entry_type |-> je.entry_type,
               amount |-> je.amount,
               balance_effect |-> balanceEffect,
               running_balance |-> runningBalance + balanceEffect]>>
            \o ledgerEntries(txns, jes, rows, i + 1, normal_balance,
                             runningBalance + balanceEffect)

getAccountLedger(accountId, startDate, endDate) ==
    IF accountId \notin DOMAIN accounts \/ ~accounts[accountId].is_active
    THEN /\ last' = Rejected("getAccountLedger", accountId, "Account not found or inactive")
         /\ ReadOnly
    ELSE LET account == accounts[accountId]
             openingBalance == opening_balance(transactions, journal_entries, accountId,
                                               account.normal_balance, startDate)
         IN \E rows \in transactionsResult(transactions, journal_entries, accountId,
                                           startDate, endDate) :
               LET lines == ledgerEntries(transactions, journal_entries, rows, 1,
                                          account.normal_balance, openingBalance)
               IN /\ last' = Report("getAccountLedger", accountId, <<startDate, endDate>>,
                                    [openingBalance |-> openingBalance,
                                     closingBalance |->
                                        IF lines = <<>> THEN openingBalance
                                        ELSE lines[Len(lines)].running_balance,
                                     transactions |-> lines])
                  /\ ReadOnly

\* One SELECT of three sums over the active accounts.  The sums are whole cents
\* and Math.abs of their difference is compared with 0.01 as computed.
validateAccountingEquation ==
    LET ids == SelectActive(accounts, AccountTypes)
        column(type, sign) ==
            [a \in ids |-> IF accounts[a].account_type # type THEN 0
                           ELSE IF sign /\ accounts[a].normal_balance = "Debit"
                               THEN -accounts[a].balance
                           ELSE accounts[a].balance]
        totalAssets == reduce(column("Asset", FALSE), ids)
        totalLiabilities == reduce(column("Liability", FALSE), ids)
        totalCapital == reduce(column("Capital", TRUE), ids)
        difference == Abs(totalAssets - (totalLiabilities + totalCapital))
    IN /\ last' = Report("validateAccountingEquation", 0, <<>>,
                         [equationHolds |-> difference < Tolerance,
                          totalAssets |-> totalAssets,
                          totalLiabilities |-> totalLiabilities,
                          totalCapital |-> totalCapital,
                          difference |-> difference])
       /\ ReadOnly

\* Postings, the deactivation of an account, and the reports, one call at a time.
NextReports ==
    \/ \E d \in BookDrafts : createTransaction(d)
    \/ \E a \in AccountOpInputs : deleteAccount(a)
    \/ getBalanceSheet
    \/ getIncomeStatement
    \/ \E p \in Periods : getBalanceSheetForPeriod(p[1], p[2])
    \/ \E p \in Periods : getIncomeStatementForPeriod(p[1], p[2])
    \/ \E a \in LedgerInputs : \E p \in Periods : getAccountLedger(a, p[1], p[2])
    \/ validateAccountingEquation

SpecReports == InitBooks /\ [][NextReports]_vars


\* ------------------------------------------------- properties of reports
\* ids of the stored transactions dated in days
DatedIn(days) == {t.id : t \in {x \in transactions : x.transaction_date \in days}}

\* how many of the entries transaction t stores for account a have this type
\* and amount
CountStored(t, a, entryType, amount) ==
    Cardinality({i \in 1..Len(EntriesOf(journal_entries, t)) :
                    /\ journal_entries[t][i].account_id = a
                    /\ journal_entries[t][i].entry_type = entryType
                    /\ journal_entries[t][i].amount = amount})

\* C14: a ledger returned for account a and [start, end] has openingBalance the
\* signed sum of a's entries dated strictly before start; one line per entry of
\* a dated in [start, end], in ascending (date, transaction id) order; each
\* running_balance the one before it (openingBalance for the first) plus the
\* line's balance_effect; and closingBalance the last running_balance, or
\* openingBalance when there is no line.
C14_LedgerFold ==
    (last.op = "getAccountLedger" /\ last.status = "ok")
    => LET a == last.id
           start == last.period[1]
           end == last.period[2]
           normal == accounts[a].normal_balance
           r == last.result
           lines == r.transactions
       IN /\ r.openingBalance
                = JournalSum(journal_entries, DatedIn({d \in BookDates : d < start}), a, normal)
          /\ \A i \in 1..Len(lines) :
                /\ lines[i].transaction_id \in DatedIn(start..end)
                /\ lines[i].date
                     = (CHOOSE t \in transactions : t.id = lines[i].transaction_id).transaction_date
                /\ lines[i].balance_effect
                     = IF lines[i].entry_type = normal THEN lines[i].amount
                       ELSE -lines[i].amount
                /\ lines[i].running_balance
                     = (IF i = 1 THEN r.openingBalance ELSE lines[i - 1].running_balance)
                       + lines[i].balance_effect
          /\ \A t \in DatedIn(start..end) : \A e \in EntryTypes : \A m \in AmountInputs :
                Cardinality({i \in 1..Len(lines) :
                                /\ lines[i].transaction_id = t
                                /\ lines[i].entry_type = e
                                /\ lines[i].amount = m})
                = CountStored(t, a, e, m)
          /\ \A j, k \in 1..Len(lines) :
                j < k => \/ lines[j].date < lines[k].date
                         \/ /\ lines[j].date = lines[k].date
                            /\ lines[j].transaction_id <= lines[k].transaction_id
          /\ r.closingBalance
                = IF lines = <<>> THEN r.openingBalance
                  ELSE lines[Len(lines)].running_balance

\* a ledger with a balance brought forward and a line that moves it
C14_Witness ==
    /\ last.op = "getAccountLedger"
    /\ last.status = "ok"
    /\ last.result.openingBalance # 0
    /\ last.result.transactions # <<>>
    /\ last.result.closingBalance # last.result.openingBalance


\* the account types a period report covers
TypesOf(op) ==
    IF op = "getBalanceSheetForPeriod" THEN {"Asset", "Liability", "Capital"}
    ELSE {"Revenue", "Expense"}

\* C15: a period report for [start, end] lists every active account of its
\* types with period_balance the signed sum of the account's entries whose
\* transaction is dated in [start, end]; an account with no entry in the range,
\* or with no entry at all, is listed with period_balance 0.
C15_PeriodBalances ==
    (last.op \in {"getBalanceSheetForPeriod", "getIncomeStatementForPeriod"})
    => \A a \in DOMAIN accounts :
          (accounts[a].is_active /\ accounts[a].account_type \in TypesOf(last.op))
          => /\ a \in DOMAIN last.result.rows
             /\ last.result.rows[a].period_balance
                  = JournalSum(journal_entries, DatedIn(last.period[1]..last.period[2]),
                               a, accounts[a].normal_balance)

\* C16: getBalanceSheet returns totalAssets and totalLiabilities the sums of the
\* cached balances of the active Asset and Liability accounts and totalCapital
\* the cached balances of the active Credit-normal Capital accounts less those
\* of the active Debit-normal ones; getIncomeStatement returns the sums of the
\* cached balances of the active Revenue and Expense accounts and netIncome
\* their difference.  No journal entry and no inactive account enters a total.
C16_AllTimeFromCachedBalances ==
    LET cached(type, normal) ==
            reduce([a \in DOMAIN accounts |-> accounts[a].balance],
                   {a \in DOMAIN accounts : /\ accounts[a].is_active
                                            /\ accounts[a].account_type = type
                                            /\ accounts[a].normal_balance \in normal})
    IN /\ last.op = "getBalanceSheet"
          => /\ last.result.totalAssets = cached("Asset", EntryTypes)
             /\ last.result.totalLiabilities = cached("Liability", EntryTypes)
             /\ last.result.totalCapital
                  = cached("Capital", {"Credit"}) - cached("Capital", {"Debit"})
       /\ last.op = "getIncomeStatement"
          => /\ last.result.totalRevenue = cached("Revenue", EntryTypes)
             /\ last.result.totalExpenses = cached("Expense", EntryTypes)
             /\ last.result.netIncome
                  = last.result.totalRevenue - last.result.totalExpenses

\* a balance sheet of books in which a deactivated liability account carries a
\* balance and drawings outweigh the capital paid in
C16_Witness ==
    /\ last.op = "getBalanceSheet"
    /\ \E a \in DOMAIN accounts :
          /\ ~accounts[a].is_active
          /\ accounts[a].account_type = "Liability"
          /\ accounts[a].balance # 0
    /\ last.result.totalLiabilities = 0
    /\ last.result.totalCapital < 0

\* C17: with every account active, validateAccountingEquation takes as capital
\* the capital accounts' signed balances plus revenue less expenses, and reports
\* equationHolds after any postings, to Revenue and Expense accounts included.
C17_EquationHolds ==
    (last.op = "validateAccountingEquation" /\ \A a \in DOMAIN accounts : accounts[a].is_active)
    => LET of(type, normal) ==
              reduce([a \in DOMAIN accounts |-> accounts[a].balance],
                     {a \in DOMAIN accounts : /\ accounts[a].account_type = type
                                              /\ accounts[a].normal_balance \in normal})
       IN /\ last.result.totalCapital
               = of("Capital", {"Credit"}) - of("Capital", {"Debit"})
                 + of("Revenue", EntryTypes) - of("Expense", EntryTypes)
          /\ last.result.equationHolds

\* C20: two getAccountLedger calls with the same arguments, one after the other
\* on the same journal, return the same opening balance, lines, running
\* balances and closing balance.
C20_LedgerReproducible ==
    [][(/\ last.op = "getAccountLedger" /\ last.status = "ok"
        /\ last'.op = "getAccountLedger" /\ last'.status = "ok"
        /\ last'.id = last.id
        /\ last'.period = last.period)
       => last'.result = last.result]_vars


\* ------------------------------------------------ reports beside postings
\* createTransaction on both connections, full edits and deletes on one, one
\* statement per step, and the two all-time reports read between any two steps.
NextRead ==
    \/ \E p \in Sessions : \E d \in ConcDrafts : BeginCreate(p, d)
    \/ \E id \in TxnIdInputs : \E d \in ConcDrafts : BeginFullUpdate(Editor, id, d)
    \/ \E id \in TxnIdInputs : BeginDelete(Editor, id)
    \/ \E p \in Sessions : SelectMaxNumber(p)
    \/ \E p \in Sessions : InsertTransactionRow(p)
    \/ \E p \in Sessions : InsertEntryRow(p)
    \/ \E p \in Sessions : SelectAccountRow(p)
    \/ \E p \in Sessions : UpdateAccountRow(p)
    \/ \E p \in Sessions : SelectEntries(p)
    \/ \E p \in Sessions : ReverseSelectAccount(p)
    \/ \E p \in Sessions : ReverseUpdateAccount(p)
    \/ \E p \in Sessions : DeleteJournalRows(p)
    \/ \E p \in Sessions : DeleteRow(p)
    \/ \E p \in Sessions : UpdateRow(p)
    \/ \E p \in Sessions : EndUnit(p)
    \/ \E p \in Sessions : Return(p)
    \/ getBalanceSheet
    \/ getIncomeStatement

SpecRead == Init /\ [][NextRead]_vars


AllTimeReports == {"getBalanceSheet", "getIncomeStatement"}

\* C13: a balance sheet or income statement read while units of work are open
\* returns, for every account it lists, the committed balance, and the
\* committed balances change only when a unit that ran to its end without an
\* error commits, all of its balance adjustments in that one step; so a read
\* sees the balances from before a posting's unit or those after all of its
\* adjustments.
C13_ReadsSeeWholeUnits ==
    [][/\ (last' # last /\ last'.op \in AllTimeReports)
          => \A a \in DOMAIN last'.result.rows :
                last'.result.rows[a].balance = accounts[a].balance
       /\ (accounts' # accounts)
          => \E p \in Sessions :
                /\ pc[p] = "End"
                /\ pc'[p] = "done"
                /\ loc[p].error = ""
                /\ \A a \in DOMAIN accounts :
                      accounts'[a] = IF a \in DOMAIN tx[p].balance
                                     THEN [accounts[a] EXCEPT !.balance = tx[p].balance[a]]
                                     ELSE accounts[a]]_vars

\* a balance sheet read while a full edit has reversed one of the two old
\* entries: it shows the balance from before the edit
C13_Witness ==
    /\ last.op = "getBalanceSheet"
    /\ \E p \in Sessions :
          /\ loc[p].call = "_updateFullTransaction"
          /\ pc[p] = "ReverseSelect"
          /\ Cardinality(DOMAIN tx[p].balance) = 1
          /\ \E a \in DOMAIN tx[p].balance :
                /\ tx[p].balance[a] # accounts[a].balance
                /\ last.result.rows[a].balance = accounts[a].balance


\* -------------------------------------------------------- administration
\* accounts createAccount may add to the books' chart
MaxNewAccounts == 1

\* const prefixes = {...}; return prefixes[accountType] || '6000'
generateAccountCode(accountType) ==
    IF accountType = "Asset" THEN 1000
    ELSE IF accountType = "Liability" THEN 2000
    ELSE IF accountType = "Capital" THEN 3000
    ELSE IF accountType = "Revenue" THEN 4000
    ELSE IF accountType = "Expense" THEN 5000
    ELSE 6000

\* SELECT MAX(CAST(account_code AS INTEGER)) ... WHERE account_code LIKE
\* '<first digit>%' AND CAST(account_code AS INTEGER) >= baseCode, 0 for NULL.
\* The chart's codes have four digits, so the first digit is code \div 1000.
max_code(accts, baseCode) ==
    LET codes == {accts[a].account_code : a \in DOMAIN accts}
        found == {c \in codes : c \div 1000 = baseCode \div 1000 /\ c >= baseCode}
    IN IF found = {} THEN 0
       ELSE CHOOSE c \in found : \A d \in found : d <= c

createAccount(accountData) ==
    LET v == validateAccountData(accountData)
        baseCode == generateAccountCode(accountData.account_type)
        nextCode == IF max_code(accounts, baseCode) # 0
                    THEN max_code(accounts, baseCode) + 1 ELSE baseCode
        id == Cardinality(DOMAIN accounts) + 1      \* accounts.id is SERIAL
    IN /\ IF v # "ok"
          THEN /\ last' = Rejected("createAccount", 0, v)
               /\ UNCHANGED accounts
          ELSE /\ Cardinality(DOMAIN accounts) < Cardinality(DOMAIN BooksChart) + MaxNewAccounts
               /\ accounts' = accounts @@
                    (id :> [account_code |-> nextCode,
                            account_name |-> accountData.account_name,
                            account_type |-> accountData.account_type,
                            normal_balance |-> accountData.normal_balance,
                            balance |-> 0,
                            is_active |-> TRUE])
               /\ last' = Returned("createAccount", id)
       /\ UNCHANGED <<transactions, journal_entries, transactions_id_seq, issued>>
       /\ UNCHANGED sessions

\* UPDATE accounts SET balance = 0 ... WHERE id = $1 AND is_active = true
resetAccountBalance(accountId) ==
    /\ IF accountId \notin DOMAIN accounts \/ ~accounts[accountId].is_active
       THEN /\ last' = Rejected("resetAccountBalance", accountId,
                                "Account not found or inactive")
            /\ UNCHANGED accounts
       ELSE /\ accounts' = [accounts EXCEPT ![accountId].balance = 0]
            /\ last' = Returned("resetAccountBalance", accountId)
    /\ UNCHANGED <<transactions, journal_entries, transactions_id_seq, issued>>
    /\ UNCHANGED sessions

\* The created_at a transactions row got from getPakistanTime().timestamp, whose
\* hours are those of a 12-hour clock without AM/PM: the first transaction is
\* entered at two in the morning, those after it in one second at one in the
\* afternoon, which is stored as 01.
created_at(id) == IF id = 1 THEN 2 ELSE 1

\* a ROW_NUMBER() that counts from 0
new_number_FromZero(txns, t) ==
    Cardinality({u \in txns :
                    \/ created_at(u.id) < created_at(t.id)
                    \/ created_at(u.id) = created_at(t.id) /\ u.id < t.id})

\* ROW_NUMBER() OVER (ORDER BY created_at, id) as new_number
new_number(txns, t) ==
    Cardinality({u \in txns :
                    \/ created_at(u.id) < created_at(t.id)
                    \/ created_at(u.id) = created_at(t.id) /\ u.id <= t.id})

\* BEGIN; UPDATE transactions SET transaction_number = -id; UPDATE transactions
\* SET transaction_number = nt.new_number ...; COMMIT, or ROLLBACK when a
\* statement threw.  fails: the second statement throws (the connection is lost).
resequenceTransactions(fails) ==
    LET before == Work(accounts, transactions, journal_entries)
        negative == [before EXCEPT !.transactions =
                        {[t EXCEPT !.transaction_number = -t.id] : t \in @}]
        after == IF fails THEN Throw(negative, "connection terminated")
                 ELSE [negative EXCEPT !.transactions =
                        {[t EXCEPT !.transaction_number = new_number(negative.transactions, t)] :
                            t \in @}]
        result == transaction(before, after)
    IN /\ Commit(result)
       /\ last' = Outcome("resequenceTransactions", 0, before, after, FALSE)
       /\ UNCHANGED <<transactions_id_seq, issued>>
       /\ UNCHANGED sessions

\* Postings, deletes, basic edits, account maintenance and the administrative
\* utilities, one call at a time.
NextAdmin ==
    \/ \E d \in BookDrafts : createTransaction(d)
    \/ \E id \in TxnIdInputs : \E u \in BookUpdates : updateTransaction(id, u)
    \/ \E id \in TxnIdInputs : deleteTransaction(id)
    \/ \E u \in AccountUpdates : createAccount(u)
    \/ \E a \in AccountOpInputs : \E u \in AccountUpdates : updateAccount(a, u)
    \/ \E a \in AccountOpInputs : deleteAccount(a)
    \/ \E a \in AccountOpInputs : resetAccountBalance(a)
    \/ \E fails \in BOOLEAN : resequenceTransactions(fails)

SpecAdmin == InitBooks /\ [][NextAdmin]_vars


\* ------------------------------------------- properties of administration
\* the calls that are not posting operations
NonPosting == {"createAccount", "updateAccount", "deleteAccount", "updateTransaction",
               "resetAccountBalance", "resequenceTransactions"}

\* C21: an account is created with balance 0, and no call other than
\* createTransaction, the full edit and deleteTransaction changes the balance of
\* an account that has journal entries.
C21_OnlyPostingsMoveBalances ==
    [][/\ \A a \in DOMAIN accounts' \ DOMAIN accounts : accounts'[a].balance = 0
       /\ last'.op \in NonPosting
          => \A a \in DOMAIN accounts :
                HasEntries(journal_entries, a)
                => accounts'[a].balance = accounts[a].balance]_vars


\* row t comes before row u in (created_at, id) order
Earlier(t, u) ==
    \/ created_at(t.id) < created_at(u.id)
    \/ created_at(t.id) = created_at(u.id) /\ t.id < u.id

C25_InactiveAccountsEmpty ==
    \A a \in DOMAIN accounts :
        ~accounts[a].is_active
        => ~HasEntries(journal_entries, a) /\ accounts[a].balance = 0


\* the range of the report in last contains the date of every stored transaction
CoversEveryDate ==
    \A t \in transactions :
        last.period[1] <= t.transaction_date /\ t.transaction_date <= last.period[2]

\* sum of the cached balances of the accounts of a type
CachedTotal(type) ==
    reduce([a \in DOMAIN accounts |-> accounts[a].balance],
           {a \in DOMAIN accounts : accounts[a].account_type = type})

\* C26: with every account active, a period report whose range contains the
\* date of every stored transaction returns the totals of the all-time report:
\* totalAssets, totalLiabilities and totalCapital of getBalanceSheet, and
\* totalRevenue, totalExpenses and netIncome of getIncomeStatement.
C26_PeriodEqualsAllTime ==
    /\ (/\ last.op = "getBalanceSheetForPeriod"
        /\ CoversEveryDate
        /\ \A a \in DOMAIN accounts : accounts[a].is_active)
       => /\ last.result.totalAssets = balanceSheet(accounts).totalAssets
          /\ last.result.totalLiabilities = balanceSheet(accounts).totalLiabilities
          /\ last.result.totalCapital = balanceSheet(accounts).totalCapital
    /\ (/\ last.op = "getIncomeStatementForPeriod"
        /\ CoversEveryDate
        /\ \A a \in DOMAIN accounts : accounts[a].is_active)
       => /\ last.result.totalRevenue = CachedTotal("Revenue")
          /\ last.result.totalExpenses = CachedTotal("Expense")
          /\ last.result.netIncome = CachedTotal("Revenue") - CachedTotal("Expense")


\* Postings of whole and half cents to the two-account chart, and the ledger
\* of either account, one call at a time.
NextLedger ==
    \/ \E d \in Drafts : createTransaction(d)
    \/ \E a \in AccountIdInputs : \E start, end \in Dates : getAccountLedger(a, start, end)

SpecLedger == Init /\ [][NextLedger]_vars

\* C27: a ledger returned for an active account and an end date not earlier
\* than the date of any transaction that touches the account has closingBalance
\* equal to the account's cached balance.
C27_ClosingIsCachedBalance ==
    (/\ last.op = "getAccountLedger"
     /\ last.status = "ok"
     /\ \A t \in transactions :
            (\E i \in 1..Len(EntriesOf(journal_entries, t.id)) :
                journal_entries[t.id][i].account_id = last.id)
            => t.transaction_date <= last.period[2])
    => last.result.closingBalance = accounts[last.id].balance


\* sum of the cached balances of the accounts with a normal balance
NormalTotal(normal_balance) ==
    reduce([a \in DOMAIN accounts |-> accounts[a].balance],
           {a \in DOMAIN accounts : accounts[a].normal_balance = normal_balance})

\* C28: in every state the cached balances of the Debit-normal accounts and
\* those of the Credit-normal accounts add up to the same amount within 0.01.
C28_DebitsMatchCredits ==
    Abs(NormalTotal("Debit") - NormalTotal("Credit")) <= Tolerance


\* ---------------------------------------------------------------- routes
\* req.body of PUT /transactions/:id as the client's full-edit mode sends it:
\* date, description and an entries array; one body comes without a date
PutBodies == BookDrafts \cup {[d EXCEPT !.date = NoDate] : d \in BookDrafts}

\* a handler that hands the whole body to updateTransaction
routeUpdateData_Body(body) == body

\* const { date, description, reference } = req.body; ... { date, description, reference }
routeUpdateData(body) == [date |-> body.date, description |-> body.description]

\* router.put('/transactions/:id') for a request that passes the handler's own
\* checks (a transaction id that parses to a number other than 0, a date that
\* is absent or well formed)
putTransaction(transactionId, body) ==
    /\ transactionId # 0
    /\ updateTransaction(transactionId, routeUpdateData(body))

\* Postings, updates through the PUT route, and full edits by direct calls of
\* updateTransaction.
NextRoutes ==
    \/ \E d \in BookDrafts : createTransaction(d)
    \/ \E id \in TxnIdInputs : \E body \in PutBodies : putTransaction(id, body)
    \/ \E id \in TxnIdInputs : \E u \in BookDrafts : updateTransaction(id, u)

SpecRoutes == InitBooks /\ [][NextRoutes]_vars

\* C29: an update through the PUT route whose body carries entries takes the
\* basic-edit path: the journal entries and every balance are unchanged, and
\* the request succeeds when the body has a date and the transaction exists;
\* updateTransaction called directly runs the full edit exactly when its
\* updateData has entries.
C29_PutRouteIsBasicEdit ==
    [][last'.op \in {"updateTransaction", "_updateFullTransaction"}
       => /\ \A id \in TxnIdInputs : \A body \in PutBodies :
                putTransaction(id, body)
                => /\ last'.op = "updateTransaction"
                   /\ journal_entries' = journal_entries
                   /\ accounts' = accounts
                   /\ (body.date # NoDate /\ \E t \in transactions : t.id = id)
                      => last'.status = "ok"
          /\ \A id \in TxnIdInputs : \A u \in BookDrafts \cup BookUpdates :
                updateTransaction(id, u)
                => (last'.op = "_updateFullTransaction" <=> "entries" \in DOMAIN u)]_vars

\* a PUT answered as a success that moved the date of a transaction and left
\* its entries as stored (every body of the route's requests carries entries)
C29_Witness ==
    /\ last.op = "updateTransaction"
    /\ last.status = "ok"
    /\ ~last.unchanged
    /\ EntriesOf(journal_entries, last.id) # <<>>
    /\ accounts[1].balance # 0


\* ------------------------------------------- calls on the same transaction
\* whole-cent requests: a posting and the posting the other way round
WholeDrafts ==
    {[date |-> 1, description |-> "memo", entries |-> e] : e \in
        {<<[account_id |-> 1, amount |-> 2, entry_type |-> "Debit"],
           [account_id |-> 2, amount |-> 2, entry_type |-> "Credit"]>>,
         <<[account_id |-> 1, amount |-> 2, entry_type |-> "Credit"],
           [account_id |-> 2, amount |-> 2, entry_type |-> "Debit"]>>}}

\* createTransaction, full edits and deletes on both connections, one statement
\* per step.  Two units that reverse the entries of one transaction meet at the
\* accounts row of its first entry, where the second waits for the first to
\* end; its DELETEs and its UPDATE of the transactions row run after that.
NextSame ==
    \/ \E p \in Sessions : \E d \in WholeDrafts : BeginCreate(p, d)
    \/ \E p \in Sessions : \E id \in TxnIdInputs : \E d \in WholeDrafts :
            BeginFullUpdate(p, id, d)
    \/ \E p \in Sessions : \E id \in TxnIdInputs : BeginDelete(p, id)
    \/ \E p \in Sessions : SelectMaxNumber(p)
    \/ \E p \in Sessions : InsertTransactionRow(p)
    \/ \E p \in Sessions : InsertEntryRow(p)
    \/ \E p \in Sessions : SelectAccountRow(p)
    \/ \E p \in Sessions : UpdateAccountRow(p)
    \/ \E p \in Sessions : SelectEntries(p)
    \/ \E p \in Sessions : ReverseSelectAccount(p)
    \/ \E p \in Sessions : ReverseUpdateAccount(p)
    \/ \E p \in Sessions : DeleteJournalRows(p)
    \/ \E p \in Sessions : DeleteRow(p)
    \/ \E p \in Sessions : UpdateRow(p)
    \/ \E p \in Sessions : EndUnit(p)
    \/ \E p \in Sessions : Return(p)

SpecSame == Init /\ [][NextSame]_vars

\* no call has a unit of work open
Quiescent == \A p \in Sessions : pc[p] \in {"idle", "done"}

\* C23: once every call has committed or rolled back, every account's cached
\* balance is the signed sum of its stored journal entries, whatever the
\* interleaving of the calls, two calls on the same transaction included.
C23_SameTransactionRace ==
    Quiescent
    => \A a \in DOMAIN accounts :
          accounts[a].balance
            = JournalSum(journal_entries, DOMAIN journal_entries, a, accounts[a].normal_balance)


\* ------------------------------- account maintenance beside a posting call
\* the posting of salary on credit: Salary Expense debit, Accounts Payable credit
PayableDrafts ==
    {[date |-> 1, description |-> "memo",
      entries |-> <<[account_id |-> 6, amount |-> 2, entry_type |-> "Debit"],
                    [account_id |-> 2, amount |-> 2, entry_type |-> "Credit"]>>]}

\* updateAccount up to its first query: validateAccountData
BeginUpdateAccount(p, accountId, updateData) ==
    /\ pc[p] = "idle"
    /\ LET v == validateAccountData(updateData) IN
       IF v # "ok"
       THEN /\ pc' = [pc EXCEPT ![p] = "done"]
            /\ ret' = [ret EXCEPT ![p] = [status |-> "error", error |-> v,
                                          transactionNumber |-> 0]]
       ELSE /\ pc' = [pc EXCEPT ![p] = "CountEntries"]
            /\ UNCHANGED ret
    /\ loc' = [loc EXCEPT ![p] = [call |-> "updateAccount", accountId |-> accountId,
                                  updateData |-> updateData]]
    /\ UNCHANGED <<accounts, transactions, journal_entries, transactions_id_seq, issued,
                   last, req, tx>>

\* deleteAccount up to its first query
BeginDeleteAccount(p, accountId) ==
    /\ pc[p] = "idle"
    /\ pc' = [pc EXCEPT ![p] = "CountEntries"]
    /\ loc' = [loc EXCEPT ![p] = [call |-> "deleteAccount", accountId |-> accountId]]
    /\ UNCHANGED <<accounts, transactions, journal_entries, transactions_id_seq, issued,
                   last, req, tx, ret>>

\* SELECT COUNT(*) as transaction_count FROM journal_entries WHERE account_id = $1,
\* a statement of its own outside any unit: it counts the committed rows
CountEntries(p) ==
    /\ pc[p] = "CountEntries"
    /\ IF transaction_count(journal_entries, loc[p].accountId) > 0
       THEN /\ pc' = [pc EXCEPT ![p] = "done"]
            /\ ret' = [ret EXCEPT ![p] =
                          [status |-> "error",
                           error |-> IF loc[p].call = "updateAccount"
                                     THEN "Cannot update account that has transactions"
                                     ELSE "Cannot delete account that has transactions",
                           transactionNumber |-> 0]]
       ELSE /\ pc' = [pc EXCEPT ![p] = "WriteAccount"]
            /\ UNCHANGED ret
    /\ UNCHANGED <<accounts, transactions, journal_entries, transactions_id_seq, issued,
                   last, req, loc, tx>>

\* updateAccount: UPDATE accounts SET account_name = $1, account_type = $2, ...,
\* normal_balance = $4 WHERE id = $6 AND is_active = true, committed at once; it
\* waits while an open unit holds the row
UpdateAccountFields(p) ==
    /\ pc[p] = "WriteAccount"
    /\ loc[p].call = "updateAccount"
    /\ LET accountId == loc[p].accountId
           updateData == loc[p].updateData
       IN /\ \A q \in Sessions \ {p} : accountId \notin DOMAIN tx[q].balance
          /\ IF accountId \in DOMAIN accounts /\ accounts[accountId].is_active
             THEN /\ accounts' = [accounts EXCEPT
                                     ![accountId].account_name = updateData.account_name,
                                     ![accountId].account_type = updateData.account_type,
                                     ![accountId].normal_balance = updateData.normal_balance]
                  /\ ret' = [ret EXCEPT ![p] = [status |-> "ok", error |-> "",
                                                transactionNumber |-> 0]]
             ELSE /\ UNCHANGED accounts
                  /\ ret' = [ret EXCEPT ![p] =
                                [status |-> "error",
                                 error |-> "Account not found or already deleted",
                                 transactionNumber |-> 0]]
    /\ pc' = [pc EXCEPT ![p] = "done"]
    /\ UNCHANGED <<transactions, journal_entries, transactions_id_seq, issued,
                   last, req, loc, tx>>

\* deleteAccount: UPDATE accounts SET is_active = false, updated_at = $1
\* WHERE id = $2 AND is_active = true, committed at once; it waits while an
\* open unit holds the row
DeactivateAccount(p) ==
    /\ pc[p] = "WriteAccount"
    /\ loc[p].call = "deleteAccount"
    /\ LET accountId == loc[p].accountId
       IN /\ \A q \in Sessions \ {p} : accountId \notin DOMAIN tx[q].balance
          /\ IF accountId \in DOMAIN accounts /\ accounts[accountId].is_active
             THEN /\ accounts' = [accounts EXCEPT ![accountId].is_active = FALSE]
                  /\ ret' = [ret EXCEPT ![p] = [status |-> "ok", error |-> "",
                                                transactionNumber |-> 0]]
             ELSE /\ UNCHANGED accounts
                  /\ ret' = [ret EXCEPT ![p] =
                                [status |-> "error",
                                 error |-> "Account not found or already deleted",
                                 transactionNumber |-> 0]]
    /\ pc' = [pc EXCEPT ![p] = "done"]
    /\ UNCHANGED <<transactions, journal_entries, transactions_id_seq, issued,
                   last, req, loc, tx>>

\* createTransaction, updateAccount and deleteAccount on both connections, one
\* statement per step
NextMaintain ==
    \/ \E p \in Sessions : \E d \in PayableDrafts : BeginCreate(p, d)
    \/ \E p \in Sessions : \E a \in AccountOpInputs : \E u \in AccountUpdates :
            BeginUpdateAccount(p, a, u)
    \/ \E p \in Sessions : \E a \in AccountOpInputs : BeginDeleteAccount(p, a)
    \/ \E p \in Sessions : CountEntries(p)
    \/ \E p \in Sessions : UpdateAccountFields(p)
    \/ \E p \in Sessions : DeactivateAccount(p)
    \/ \E p \in Sessions : SelectMaxNumber(p)
    \/ \E p \in Sessions : InsertTransactionRow(p)
    \/ \E p \in Sessions : InsertEntryRow(p)
    \/ \E p \in Sessions : SelectAccountRow(p)
    \/ \E p \in Sessions : UpdateAccountRow(p)
    \/ \E p \in Sessions : EndUnit(p)
    \/ \E p \in Sessions : Return(p)

SpecMaintain == InitBooks /\ [][NextMaintain]_vars

\* the step changes the account's type or normal balance or sets it inactive
AccountChanged(a) ==
    \/ accounts'[a].account_type # accounts[a].account_type
    \/ accounts'[a].normal_balance # accounts[a].normal_balance
    \/ accounts[a].is_active /\ ~accounts'[a].is_active

\* C24: updateAccount's and deleteAccount's zero-entries check and their write
\* behave as one step beside concurrent postings: an account's type or normal
\* balance changes, or the account becomes inactive, only while it has no
\* committed journal entry, and once every call has ended every balance is the
\* signed sum of the account's entries under its current normal balance.
C24_CheckAndWriteAreOneStep ==
    /\ [][\A a \in DOMAIN accounts :
             AccountChanged(a) => transaction_count(journal_entries, a) = 0]_vars
    /\ [](Quiescent
          => \A a \in DOMAIN accounts :
                accounts[a].balance
                  = JournalSum(journal_entries, DOMAIN journal_entries, a,
                               accounts[a].normal_balance))


\* ------------------------------------------- the ledger beside basic edits
\* the connection the ledger is read on
LedgerSessions == {"c1"}

\* getAccountLedger up to its first query; the route has validated both dates
BeginLedger(p, accountId, startDate, endDate) ==
    /\ pc[p] = "idle"
    /\ pc' = [pc EXCEPT ![p] = "SelectLedgerAccount"]
    /\ loc' = [loc EXCEPT ![p] = [call |-> "getAccountLedger", accountId |-> accountId,
                                  dbStartDate |-> startDate, dbEndDate |-> endDate,
                                  normal_balance |-> "", openingBalance |-> 0]]
    /\ UNCHANGED <<accounts, transactions, journal_entries, transactions_id_seq, issued,
                   last, req, tx, ret>>

\* SELECT * FROM accounts WHERE id = $1 AND is_active = true
SelectLedgerAccount(p) ==
    /\ pc[p] = "SelectLedgerAccount"
    /\ LET accountId == loc[p].accountId IN
       IF accountId \notin DOMAIN accounts \/ ~accounts[accountId].is_active
       THEN /\ pc' = [pc EXCEPT ![p] = "done"]
            /\ ret' = [ret EXCEPT ![p] = [status |-> "error",
                                          error |-> "Account not found or inactive",
                                          transactionNumber |-> 0]]
            /\ UNCHANGED loc
       ELSE /\ pc' = [pc EXCEPT ![p] = "OpeningBalance"]
            /\ loc' = [loc EXCEPT ![p].normal_balance = accounts[accountId].normal_balance]
            /\ UNCHANGED ret
    /\ UNCHANGED <<accounts, transactions, journal_entries, transactions_id_seq, issued,
                   last, req, tx>>

\* the opening balance query, a statement of its own over the committed rows
SelectOpeningBalance(p) ==
    /\ pc[p] = "OpeningBalance"
    /\ loc' = [loc EXCEPT ![p].openingBalance =
                  opening_balance(transactions, journal_entries, loc[p].accountId,
                                  loc[p].normal_balance, loc[p].dbStartDate)]
    /\ pc' = [pc EXCEPT ![p] = "LedgerLines"]
    /\ UNCHANGED <<accounts, transactions, journal_entries, transactions_id_seq, issued,
                   last, req, tx, ret>>

\* the query of the lines in range, a third statement over the committed rows,
\* and the running balance folded from the opening balance read before
SelectLedgerLines(p) ==
    /\ pc[p] = "LedgerLines"
    /\ \E rows \in transactionsResult(transactions, journal_entries, loc[p].accountId,
                                      loc[p].dbStartDate, loc[p].dbEndDate) :
          LET lines == ledgerEntries(transactions, journal_entries, rows, 1,
                                     loc[p].normal_balance, loc[p].openingBalance)
          IN ret' = [ret EXCEPT ![p] =
                        [status |-> "ok", error |-> "", transactionNumber |-> 0,
                         result |-> [openingBalance |-> loc[p].openingBalance,
                                     closingBalance |->
                                        IF lines = <<>> THEN loc[p].openingBalance
                                        ELSE lines[Len(lines)].running_balance,
                                     transactions |-> lines]]]
    /\ pc' = [pc EXCEPT ![p] = "done"]
    /\ UNCHANGED <<accounts, transactions, journal_entries, transactions_id_seq, issued,
                   last, req, loc, tx>>

\* Postings while no ledger is being read, then ledgers read one statement per
\* step with basic edits committing between the statements.
NextLedgerRace ==
    \/ \E d \in BookDrafts : (\A p \in Sessions : pc[p] = "idle") /\ createTransaction(d)
    \/ \E id \in TxnIdInputs : \E u \in BookUpdates : updateTransaction(id, u)
    \/ \E p \in LedgerSessions : \E a \in LedgerInputs : \E period \in Periods :
            BeginLedger(p, a, period[1], period[2])
    \/ \E p \in LedgerSessions : SelectLedgerAccount(p)
    \/ \E p \in LedgerSessions : SelectOpeningBalance(p)
    \/ \E p \in LedgerSessions : SelectLedgerLines(p)
    \/ \E p \in LedgerSessions : Return(p)

SpecLedgerRace == InitBooks /\ [][NextLedgerRace]_vars

\* C30: a ledger read beside committing edits is that of one committed state.
\* While a ledger is read here only dates change, and every date is on or before
\* the last book date, so in every state committed during the call the entries of
\* the account dated on or before that endDate are all its entries: the
\* closingBalance of a ledger up to the last book date is their signed sum.
C30_LedgerOfOneState ==
    \A p \in LedgerSessions :
        (/\ pc[p] = "done"
         /\ loc[p].call = "getAccountLedger"
         /\ ret[p].status = "ok"
         /\ loc[p].dbEndDate = MaxBookDate)
        => ret[p].result.closingBalance
             = JournalSum(journal_entries, DOMAIN journal_entries, loc[p].accountId,
                          accounts[loc[p].accountId].normal_balance)

====
